---- MODULE Spec2Model ----
(***************************************************************************)
(* Model of srt-live-transmit: the medium factory and the SRT connection   *)
(* manager of common/transmitmedia.cpp, and the event loop of              *)
(* apps/srt-live-transmit.cpp.                                             *)
(*                                                                         *)
(* Text that the program parses (ports, numeric options) is a sequence of  *)
(* one-character strings, so that atoi/stoi/Sprint are computed digit by   *)
(* digit.  Text that is only compared (mode, adapter, host) is a string.   *)
(***************************************************************************)
EXTENDS Integers, Sequences, FiniteSets, TLC

\* ---------------------------------------------------------------- bounds
\* socket handles the library hands out in one run
MaxSock == 3
\* chunks the peer of the source delivers in one run
MaxChunks == 11

\* ------------------------------------------------------ program constants
SRT_LIVE_DEF_PLSIZE == 1316
SRT_LIVE_MAX_PLSIZE == 1456
MinPort == 1024
BatchSize == 10
SRT_INVALID_SOCK == -1
ListenBacklog == 1

\* ------------------------------------------------------------ text helpers
DecDigits == <<"0", "1", "2", "3", "4", "5", "6", "7", "8", "9">>
HexDigits == DecDigits \o <<"a", "b", "c", "d", "e", "f">>

IsSpace(c) == c = " "

\* value of character c as a digit of the given base, or -1
DigitVal(c, base) ==
    IF \E k \in 1..base : HexDigits[k] = c
    THEN (CHOOSE k \in 1..base : HexDigits[k] = c) - 1
    ELSE -1

RECURSIVE SkipSpace(_, _)
SkipSpace(s, k) ==
    IF k <= Len(s) /\ IsSpace(s[k]) THEN SkipSpace(s, k + 1) ELSE k

\* accumulates the digits of s from position k on; stops at the first
\* character that is no digit of the base: [val, n] = value and digit count
RECURSIVE AccDigits(_, _, _, _, _)
AccDigits(s, k, base, acc, n) ==
    IF k <= Len(s) /\ DigitVal(s[k], base) >= 0
    THEN AccDigits(s, k + 1, base, acc * base + DigitVal(s[k], base), n + 1)
    ELSE [val |-> acc, n |-> n]

\* atoi(3): optional blanks, optional sign, decimal digits; 0 when none
atoi(s) ==
    LET k0 == SkipSpace(s, 1)
        signed == k0 <= Len(s) /\ s[k0] \in {"+", "-"}
        k1 == IF signed THEN k0 + 1 ELSE k0
        r == AccDigits(s, k1, 10, 0, 0)
    IN  IF signed /\ s[k0] = "-" THEN 0 - r.val ELSE r.val

\* std::stoi(str, 0, b): with b = 0 the base is detected from the prefix;
\* throws std::invalid_argument when no digit can be converted
stoi(s, b) ==
    LET k0 == SkipSpace(s, 1)
        signed == k0 <= Len(s) /\ s[k0] \in {"+", "-"}
        k1 == IF signed THEN k0 + 1 ELSE k0
        hex == b = 0 /\ k1 + 1 <= Len(s) /\ s[k1] = "0" /\ s[k1 + 1] = "x"
        oct == b = 0 /\ ~hex /\ k1 <= Len(s) /\ s[k1] = "0"
        base == IF hex THEN 16 ELSE IF oct THEN 8 ELSE 10
        k2 == IF hex THEN k1 + 2 ELSE k1
        r == AccDigits(s, k2, base, 0, 0)
        \* "0x" without a hex digit converts the leading "0"
        ok == r.n > 0 \/ hex
        v == IF signed /\ s[k0] = "-" THEN 0 - r.val ELSE r.val
    IN  [ok |-> ok, val |-> IF ok THEN v ELSE 0]

\* Sprint(n): the decimal text of a size_t
RECURSIVE Sprint(_)
Sprint(n) ==
    IF n < 10 THEN <<DecDigits[n + 1]>>
    ELSE Append(Sprint(n \div 10), DecDigits[(n % 10) + 1])

\* std::map<string,string> as a function from keys to values
Erase(par, key) == [k \in DOMAIN par \ {key} |-> par[k]]
Put(par, key, val) ==
    [k \in DOMAIN par \cup {key} |-> IF k = key THEN val ELSE par[k]]
Count(par, key) == key \in DOMAIN par
EmptyMap == [k \in {} |-> ""]

false_names == {"0", "no", "off", "false"}


\* ----------------------------------------------------- the socket library
\* states of an SRT socket as srt_getsockstate reports them
SockStatus ==
    {"INIT", "OPENED", "LISTENING", "CONNECTING", "CONNECTED",
     "BROKEN", "CLOSED", "NONEXIST"}

\* handles issued by the library; none of them equals the integer that
\* `true` converts to
BoolToSock(b) == IF b THEN 1 ELSE 0
FirstSock == BoolToSock(TRUE) + 1
Handles == FirstSock..(FirstSock + MaxSock - 1)

\* An operation of a medium runs in a context X:
\*   m        the SrtCommon object the operation works on
\*   st       library: status of every SRT socket handle
\*   next     library: next handle srt_socket / srt_accept hands out
\*   closes   library: number of srt_close calls made on each handle
\*   lasterr  library: TRUE while the last-error state holds an error
\*   calls    the library calls made by the operation, in order
\*   exc      the exception in flight ("none" when there is none)
\*   fail     the one library call the environment makes fail ("none")
NoExc(X) == X.exc = "none"
Fails(X, name) == X.fail = name
LibCall(X, name) == [X EXCEPT !.calls = Append(@, name)]
LibFail(X, name) == [X EXCEPT !.calls = Append(@, name), !.lasterr = TRUE]

\* srt_close(h): an open handle becomes CLOSED; closing a handle that is
\* not open is an error of the library
srt_close(X, h) ==
    IF h \in Handles /\ X.st[h] \notin {"CLOSED", "NONEXIST"}
    THEN [X EXCEPT !.calls = Append(@, "srt_close"),
                   !.st[h] = "CLOSED",
                   !.closes[h] = @ + 1]
    ELSE [X EXCEPT !.calls = Append(@, "srt_close"),
                   !.closes = IF h \in Handles
                              THEN [@ EXCEPT ![h] = @ + 1] ELSE @,
                   !.lasterr = TRUE]

\* the status of a handle in the context of an operation
SockState(X, s) == IF s \in Handles THEN X.st[s] ELSE "NONEXIST"

\* faulty variant: the library error state is left as it is
Error_NoClear(X, srcname) ==
    [X EXCEPT !.exc = "TransmissionError", !.what = srcname]
\* SrtCommon::Error: clears the library error state and raises
Error(X, srcname) ==
    [X EXCEPT !.lasterr = FALSE,
              !.exc = "TransmissionError",
              !.what = srcname]

Throw(X, exc, what) == [X EXCEPT !.exc = exc, !.what = what]

\* ------------------------------------------------------------- SrtCommon
\* the object before Init: member initialisers of the class declaration
SrtCommonDefault ==
    [type |-> "SRT",
     m_output_direction |-> FALSE,
     m_blocking_mode |-> FALSE,
     m_timeout |-> 0,
     m_tsbpdmode |-> TRUE,
     m_outgoing_port |-> 0,
     m_mode |-> "",
     m_adapter |-> "",
     m_options |-> EmptyMap,
     m_sock |-> SRT_INVALID_SOCK,
     m_bindsock |-> SRT_INVALID_SOCK]

\* faulty variant: the host is not looked at
DefaultMode_Caller(host) == "caller"
\* if ( host == "" ) m_mode = "listener"; else m_mode = "caller";
DefaultMode(host) == IF host = "" THEN "listener" ELSE "caller"

\* faulty variant: a listener does not take its adapter from the host
DefaultAdapter_Current(mode, host, current) == current
\* else if ( m_mode == "listener" ) m_adapter = host;
DefaultAdapter(mode, host, current) ==
    IF mode = "listener" THEN host ELSE current

\* faulty variant: the ceiling itself is rejected
ChunkOverCeiling_Inclusive(size) == size >= SRT_LIVE_MAX_PLSIZE
\* if (transmit_chunk_size > SRT_LIVE_MAX_PLSIZE) throw ...
ChunkOverCeiling(size) == size > SRT_LIVE_MAX_PLSIZE

InitParameters(X, host, par, transmit_chunk_size) ==
    LET mode0 == IF Count(par, "mode") THEN par["mode"] ELSE "default"
        mode1 == IF mode0 = "default" THEN DefaultMode(host) ELSE mode0
        mode2 == IF mode1 = "client" THEN "caller"
                 ELSE IF mode1 = "server" THEN "listener"
                 ELSE mode1
        par1 == Erase(par, "mode")
        X1 == [X EXCEPT !.m.m_mode = mode2]
        \* timeout
        to == IF Count(par1, "timeout") THEN stoi(par1["timeout"], 0)
              ELSE [ok |-> TRUE, val |-> X.m.m_timeout]
        par2 == Erase(par1, "timeout")
        X2 == [X1 EXCEPT !.m.m_timeout = to.val]
        \* adapter
        adapter == IF Count(par2, "adapter") THEN par2["adapter"]
                   ELSE DefaultAdapter(mode2, host, X.m.m_adapter)
        par3 == Erase(par2, "adapter")
        \* tsbpd
        tsbpd == IF Count(par3, "tsbpd") /\ par3["tsbpd"] \in false_names
                 THEN FALSE ELSE X.m.m_tsbpdmode
        X3 == [X2 EXCEPT !.m.m_adapter = adapter, !.m.m_tsbpdmode = tsbpd]
        \* port
        op == IF Count(par3, "port") THEN stoi(par3["port"], 0)
              ELSE [ok |-> TRUE, val |-> X.m.m_outgoing_port]
        par4 == Erase(par3, "port")
        X4 == [X3 EXCEPT !.m.m_outgoing_port = op.val]
        \* live chunk size
        live == ~Count(par4, "transtype") \/ par4["transtype"] # "file"
        enforce == live /\ transmit_chunk_size # SRT_LIVE_DEF_PLSIZE
        par5 == IF enforce
                THEN Put(par4, "payloadsize", Sprint(transmit_chunk_size))
                ELSE par4
    IN  IF ~to.ok THEN Throw(X1, "invalid_argument", "stoi")
        ELSE IF ~op.ok THEN Throw(X3, "invalid_argument", "stoi")
        ELSE IF enforce /\ ChunkOverCeiling(transmit_chunk_size)
        THEN Throw(X4, "runtime_error", "chunk size")
        ELSE [X4 EXCEPT !.m.m_options = par5]

\* ConfigurePre / ConfigurePost: the option phases; each fails as a whole
\* when the environment makes it fail
\* what the PRE phase sets on a socket: the delivery mode, the receive
\* synchronisation, the sender flag of a target, and the option map handed
\* to the table of PRE options
PreValues(m) ==
    [tsbpdmode |-> m.m_tsbpdmode,
     rcvsyn |-> m.m_blocking_mode,
     sender |-> m.m_output_direction,
     options |-> m.m_options]

\* the library keeps, for every socket, the PRE phases run on it with the
\* state the socket was in
ApplyPre(X, sock) ==
    IF sock \in Handles
    THEN [X EXCEPT !.pre[sock] =
             Append(@, [at |-> X.st[sock], values |-> PreValues(X.m)])]
    ELSE X

ConfigurePre(X, sock) ==
    IF Fails(X, "ConfigurePre")
    THEN [res |-> -1, X |-> LibFail(ApplyPre(X, sock), "ConfigurePre")]
    ELSE [res |-> 0, X |-> LibCall(ApplyPre(X, sock), "ConfigurePre")]

\* the entries of the option table srt_options that are tagged POST
PostOptionNames == {"maxbw", "inputbw", "oheadbw"}

\* the part of an option map that is tagged POST
PostOptions(options) ==
    [k \in DOMAIN options \cap PostOptionNames |-> options[k]]

\* what one POST phase sets on a socket: the synchronisation flag of the
\* direction and its value, the timeout of the direction when one is set,
\* and, when the phase gets that far (table), the POST options of the map
PostValues(m, table) ==
    [flag |-> IF m.m_output_direction THEN "SRTO_SNDSYN" ELSE "SRTO_RCVSYN",
     value |-> m.m_blocking_mode,
     timeout |-> m.m_timeout,
     table |-> table,
     options |-> IF table THEN PostOptions(m.m_options) ELSE EmptyMap]

\* the library keeps, for every socket, the POST phases run on it
ApplyPost(X, sock, table) ==
    IF sock \in Handles
    THEN [X EXCEPT !.post[sock] = Append(@, PostValues(X.m, table))]
    ELSE X

\* if ( m_timeout ) return srt_setsockopt(sock, 0, SRTO_xxxTIMEO, ...);
\* a timeout makes the phase return before SrtConfigurePost and the table
ConfigurePost(X, sock) ==
    IF Fails(X, "ConfigurePost")
    THEN [res |-> -1, X |-> LibFail(X, "ConfigurePost")]
    ELSE IF X.m.m_timeout # 0
    THEN [res |-> 0, X |-> LibCall(ApplyPost(X, sock, FALSE), "ConfigurePost")]
    ELSE [res |-> 0, X |-> LibCall(ApplyPost(X, sock, TRUE), "ConfigurePost")]

\* the resolver: the address of a host name as four octets
Resolve(host) ==
    CASE host = "" -> <<0, 0, 0, 0>>
      [] host = "10.0.0.1" -> <<10, 0, 0, 1>>
      [] host = "10.0.0.2" -> <<10, 0, 0, 2>>
      [] host = "223.9.9.9" -> <<223, 9, 9, 9>>
      [] host = "224.0.0.5" -> <<224, 0, 0, 5>>
      [] host = "239.1.1.1" -> <<239, 1, 1, 1>>
      [] host = "240.1.1.1" -> <<240, 1, 1, 1>>
      [] OTHER -> <<127, 0, 0, 1>>

\* CreateAddrInet(host, port): the empty name is the wildcard address
CreateAddrInet(host, port) == [addr |-> Resolve(host), port |-> port]

\* srt_socket: a fresh handle in state INIT, or SRT_ERROR
srt_socket(X) ==
    IF Fails(X, "srt_socket")
    THEN [res |-> SRT_INVALID_SOCK, X |-> LibFail(X, "srt_socket")]
    ELSE [res |-> X.next,
          X |-> [LibCall(X, "srt_socket") EXCEPT
                    !.st[X.next] = "INIT", !.next = @ + 1]]

srt_bind(X, sock, sa) ==
    IF Fails(X, "srt_bind") THEN LibFail(X, "srt_bind")
    ELSE [LibCall(X, "srt_bind") EXCEPT !.st[sock] = "OPENED",
                                         !.bound[sock] = sa]

srt_listen(X, sock, backlog) ==
    IF Fails(X, "srt_listen") THEN LibFail(X, "srt_listen")
    ELSE [LibCall(X, "srt_listen") EXCEPT !.st[sock] = "LISTENING"]

\* srt_connect: in non-blocking mode it returns with the handshake running
srt_connect(X, sock, sa) ==
    IF Fails(X, "srt_connect") THEN LibFail(X, "srt_connect")
    ELSE [LibCall(X, "srt_connect") EXCEPT
             !.st[sock] = IF X.m.m_blocking_mode THEN "CONNECTED"
                          ELSE "CONNECTING",
             !.peer[sock] = sa]

\* faulty variant: the socket is bound and never put to listening
PrepareListener_NoListen(X, host, port, backlog) ==
    LET s == srt_socket(X)
        X1 == [s.X EXCEPT !.m.m_bindsock = s.res]
        c == ConfigurePre(X1, X1.m.m_bindsock)
        sa == CreateAddrInet(host, port)
        X3 == srt_bind(c.X, X1.m.m_bindsock, sa)
    IN  IF s.res = SRT_INVALID_SOCK THEN Error(X1, "srt_socket")
        ELSE IF c.res = -1 THEN Error(c.X, "ConfigurePre")
        ELSE IF Fails(X, "srt_bind")
        THEN Error(srt_close(X3, X1.m.m_bindsock), "srt_bind")
        ELSE X3

PrepareListener(X, host, port, backlog) ==
    LET s == srt_socket(X)
        X1 == [s.X EXCEPT !.m.m_bindsock = s.res]
        c == ConfigurePre(X1, X1.m.m_bindsock)
        sa == CreateAddrInet(host, port)
        X3 == srt_bind(c.X, X1.m.m_bindsock, sa)
        X4 == srt_listen(X3, X1.m.m_bindsock, backlog)
    IN  IF s.res = SRT_INVALID_SOCK THEN Error(X1, "srt_socket")
        ELSE IF c.res = -1 THEN Error(c.X, "ConfigurePre")
        ELSE IF Fails(X, "srt_bind")
        THEN Error(srt_close(X3, X1.m.m_bindsock), "srt_bind")
        ELSE IF Fails(X, "srt_listen")
        THEN Error(srt_close(X4, X1.m.m_bindsock), "srt_listen")
        ELSE X4

\* OpenServer forwards to PrepareListener with the backlog of one client
OpenServer(X, host, port) == PrepareListener(X, host, port, ListenBacklog)

SetupAdapter(X, host, port) ==
    LET sa == CreateAddrInet(host, port)
        X1 == srt_bind(X, X.m.m_sock, sa)
    IN  IF Fails(X, "srt_bind") THEN Error(X1, "srt_bind") ELSE X1

PrepareClient(X) ==
    LET s == srt_socket(X)
        X1 == [s.X EXCEPT !.m.m_sock = s.res]
        c == ConfigurePre(X1, X1.m.m_sock)
    IN  IF s.res = SRT_INVALID_SOCK THEN Error(X1, "srt_socket")
        ELSE IF c.res = -1 THEN Error(c.X, "ConfigurePre")
        ELSE c.X

ConnectClient(X, host, port) ==
    LET sa == CreateAddrInet(host, port)
        X1 == srt_connect(X, X.m.m_sock, sa)
        c == ConfigurePost(X1, X.m.m_sock)
    IN  IF Fails(X, "srt_connect")
        THEN Error(srt_close(X1, X.m.m_sock), "UDT::connect")
        ELSE IF c.res = -1 THEN Error(c.X, "ConfigurePost")
        ELSE c.X

\* faulty variant: the socket is bound whether a port is pinned or not
PinsPort_Always(m) == TRUE
\* if ( m_outgoing_port )
PinsPort(m) == m.m_outgoing_port # 0

OpenClient(X, host, port) ==
    LET X1 == PrepareClient(X)
        X2 == IF NoExc(X1) /\ PinsPort(X1.m)
              THEN SetupAdapter(X1, "", X1.m.m_outgoing_port)
              ELSE X1
    IN  IF NoExc(X2) THEN ConnectClient(X2, host, port) ELSE X2

OpenRendezvous(X, adapter, host, port) ==
    LET s == srt_socket(X)
        X1 == [s.X EXCEPT !.m.m_sock = s.res]
        \* the result of this call is not looked at
        X2 == IF Fails(X, "SRTO_RENDEZVOUS")
              THEN LibFail(X1, "srt_setsockopt(SRTO_RENDEZVOUS)")
              ELSE LibCall(X1, "srt_setsockopt(SRTO_RENDEZVOUS)")
        c == ConfigurePre(X2, X1.m.m_sock)
        X3 == srt_bind(c.X, X1.m.m_sock, CreateAddrInet(adapter, port))
        X4 == srt_connect(X3, X1.m.m_sock, CreateAddrInet(host, port))
        p == ConfigurePost(X4, X1.m.m_sock)
    IN  IF s.res = SRT_INVALID_SOCK THEN Error(X1, "srt_socket")
        ELSE IF c.res = -1 THEN Error(c.X, "ConfigurePre")
        ELSE IF Fails(X, "srt_bind")
        THEN Error(srt_close(X3, X1.m.m_sock), "srt_bind")
        ELSE IF Fails(X, "srt_connect")
        THEN Error(srt_close(X4, X1.m.m_sock), "srt_connect")
        ELSE IF p.res = -1 THEN Error(p.X, "ConfigurePost")
        ELSE p.X

\* the second half of Init: the open path of the mode, on the context X1
\* that InitParameters left
OpenByMode(X1, host, port) ==
    IF ~NoExc(X1) THEN X1
    ELSE IF X1.m.m_mode = "caller" THEN OpenClient(X1, host, port)
    ELSE IF X1.m.m_mode = "listener"
    THEN OpenServer(X1, X1.m.m_adapter, port)
    ELSE IF X1.m.m_mode = "rendezvous"
    THEN OpenRendezvous(X1, X1.m.m_adapter, host, port)
    ELSE Throw(X1, "invalid_argument", "Invalid 'mode'")

Init(X, host, port, par, dir_output, transmit_chunk_size) ==
    OpenByMode(InitParameters([X EXCEPT !.m.m_output_direction = dir_output],
                              host, par, transmit_chunk_size),
               host, port)

Close(X) ==
    LET X1 == IF X.m.m_sock # SRT_INVALID_SOCK
              THEN srt_close(LibCall(X, "srt_setsockflag"), X.m.m_sock)
              ELSE X
    IN  IF X1.m.m_bindsock # SRT_INVALID_SOCK
        THEN srt_close(LibCall(X1, "srt_setsockflag"), X1.m.m_bindsock)
        ELSE X1

\* ~SrtCommon
SrtCommonDtor(X) == Close(X)


\* the absent medium (an empty unique_ptr)
NULL == [type |-> "null"]

SrtSource(X, host, port, par, transmit_chunk_size) ==
    Init(X, host, port, par, FALSE, transmit_chunk_size)

SrtTarget(X, host, port, par, transmit_chunk_size) ==
    Init(X, host, port, par, TRUE, transmit_chunk_size)

\* new SrtSource / new SrtTarget: when the constructor raises, the
\* SrtCommon base is destroyed and no object exists
SrtUnwind(X1) ==
    IF NoExc(X1) THEN X1 ELSE [SrtCommonDtor(X1) EXCEPT !.m = NULL]

CreateSrt(X, isOutput, host, port, par, transmit_chunk_size) ==
    SrtUnwind(IF isOutput
              THEN SrtTarget([X EXCEPT !.m = SrtCommonDefault],
                             host, port, par, transmit_chunk_size)
              ELSE SrtSource([X EXCEPT !.m = SrtCommonDefault],
                             host, port, par, transmit_chunk_size))

\* ------------------------------------------------------------- UdpCommon
\* faulty variant: the last range of group addresses is left out
IsMulticast_Below239(adr) ==
    LET c == adr[1] IN c >= 224 /\ c < 239
\* return c >= 224 && c <= 239;
IsMulticast(adr) ==
    LET c == adr[1] IN c >= 224 /\ c <= 239

UdpCommonDefault ==
    [type |-> "UDP",
     m_sock |-> -1,
     sadr |-> [addr |-> <<0, 0, 0, 0>>, port |-> 0],
     adapter |-> "",
     m_options |-> EmptyMap,
     eof |-> TRUE]

\* a system call on the datagram socket
SysCall(X, name) == [X EXCEPT !.calls = Append(@, name)]

\* UdpCommon::Error raises without touching the SRT error state
UdpError(X, srcname) ==
    [X EXCEPT !.exc = "TransmissionError", !.what = srcname]

Setup(X, host, port, attr) ==
    LET fd == X.sysnext
        X1 == IF Fails(X, "socket")
              THEN SysCall(X, "socket")
              ELSE [SysCall(X, "socket") EXCEPT
                       !.m.m_sock = fd, !.sysnext = @ + 1,
                       !.sysopen = @ \cup {fd}]
        X2 == SysCall(SysCall(X1, "setsockopt(SO_REUSEADDR)"), "ioctl(FIONBIO)")
        sadr == CreateAddrInet(host, port)
        X3 == [X2 EXCEPT !.m.sadr = sadr]
        wants == Count(attr, "multicast")
        is_multicast == IsMulticast(sadr.addr)
        adapter == IF Count(attr, "adapter") THEN attr["adapter"] ELSE ""
        maddr == IF adapter = "" THEN <<0, 0, 0, 0>>
                 ELSE CreateAddrInet(adapter, port).addr
        X4 == IF is_multicast
              THEN [SysCall(X3, "setsockopt(IP_ADD_MEMBERSHIP)") EXCEPT
                       !.m.adapter = adapter]
              ELSE X3
        X5 == IF is_multicast /\ ~Fails(X, "IP_ADD_MEMBERSHIP")
              THEN [X4 EXCEPT !.member = @ \cup
                                 {[fd |-> fd, group |-> sadr.addr,
                                   iface |-> maddr]}]
              ELSE X4
        attr1 == IF is_multicast
                 THEN Erase(Erase(attr, "multicast"), "adapter")
                 ELSE attr
        ttl == IF Count(attr1, "ttl") THEN stoi(attr1["ttl"], 10)
               ELSE [ok |-> TRUE, val |-> 0]
        X6 == IF Count(attr1, "ttl")
              THEN SysCall(SysCall(X5, "setsockopt(IP_TTL)"),
                           "setsockopt(IP_MULTICAST_TTL)")
              ELSE X5
        attr2 == Erase(attr1, "ttl")
    IN  IF Fails(X, "socket") THEN UdpError(X1, "UdpCommon::Setup: socket")
        ELSE IF Fails(X, "ioctl")
        THEN UdpError(X2, "UdpCommon::Setup: ioctl FIONBIO")
        ELSE IF wants /\ ~is_multicast
        THEN Throw(X3, "runtime_error", "requested multicast")
        ELSE IF is_multicast /\ Fails(X, "IP_ADD_MEMBERSHIP")
        THEN Throw(X4, "runtime_error", "adding to multicast membership")
        ELSE IF ~ttl.ok THEN Throw(X5, "invalid_argument", "stoi")
        ELSE [X6 EXCEPT !.m.m_options = attr2]

\* ~UdpCommon: close(m_sock)
UdpCommonDtor(X) ==
    [SysCall(X, "close") EXCEPT !.sysopen = @ \ {X.m.m_sock}]

\* the body of the UdpSource constructor, on the context X1 that Setup left
UdpSourceBind(X1) ==
    IF ~NoExc(X1) THEN X1
    ELSE IF Fails(X1, "bind")
    THEN UdpError(SysCall(X1, "bind"), "Binding address for UDP")
    ELSE [SysCall(X1, "bind") EXCEPT !.m.eof = FALSE]

UdpSource(X, host, port, attr) == UdpSourceBind(Setup(X, host, port, attr))

UdpTarget(X, host, port, attr) == Setup(X, host, port, attr)

UdpUnwind(X1) ==
    IF NoExc(X1) THEN X1 ELSE [UdpCommonDtor(X1) EXCEPT !.m = NULL]

CreateUdp(X, isOutput, host, port, par) ==
    UdpUnwind(IF isOutput
              THEN UdpTarget([X EXCEPT !.m = UdpCommonDefault],
                             host, port, par)
              ELSE UdpSource([X EXCEPT !.m = UdpCommonDefault],
                             host, port, par))

\* ---------------------------------------------------------- CreateMedium
\* faulty variant: port 1024 is let through
PortInvalid_Strict(iport) == iport < MinPort
\* if ( iport <= 1024 ) throw invalid_argument("Invalid port number");
PortInvalid(iport) == iport <= MinPort

\* ptr->uri = UriParser(uri): the medium keeps its location
SetUri(X1, u) ==
    IF X1.m # NULL
    THEN [X1 EXCEPT !.m = [f \in DOMAIN X1.m \cup {"uri"} |->
                             IF f = "uri" THEN u ELSE X1.m[f]]]
    ELSE X1

\* the port of the location, as CreateMedium reads it
PortOf(u) == atoi(u.port)

\* a parsed location: u.type(), u.host(), u.port(), u.parameters()
CreateMedium(X, u, isOutput, transmit_chunk_size) ==
    SetUri(IF u.type = "SRT"
           THEN IF PortInvalid(PortOf(u))
                THEN Throw([X EXCEPT !.m = NULL], "invalid_argument",
                           "Invalid port number")
                ELSE CreateSrt([X EXCEPT !.m = NULL], isOutput, u.host,
                               PortOf(u), u.parameters, transmit_chunk_size)
           ELSE IF u.type = "UDP"
           THEN IF PortInvalid(PortOf(u))
                THEN Throw([X EXCEPT !.m = NULL], "invalid_argument",
                           "Invalid port number")
                ELSE CreateUdp([X EXCEPT !.m = NULL], isOutput, u.host,
                               PortOf(u), u.parameters)
           ELSE [X EXCEPT !.m = NULL],
           u)


\* ================================================================= state
VARIABLES
    \* command line (constant during a run)
    autoreconnect, params, chunk, transmit_chunk_size,
    \* flags set by the signal handlers
    int_state, timer_state, alarm_at,
    \* locals of main
    src, tar, srcConnected, tarConnected, pollset, srtrfds, sysrfdslen,
    idx, doabort, dataqueue, pc, retcode,
    \* the socket library and the peer of the source
    lib, arrived,
    \* observation: library calls and exception of the last operation,
    \* and what the run has done so far
    calls, lastexc, hist,
    \* a single medium operated on outside the loop, a second instance
    \* for the hand-over of a socket, and the operations made on them
    obj, input, mpc, obj2, mops,
    \* what the last Read on the medium returned and what it was answered
    mres

loopvars ==
    <<autoreconnect, params, chunk, transmit_chunk_size, int_state,
      timer_state, alarm_at, src, tar, srcConnected, tarConnected, pollset,
      srtrfds, sysrfdslen, idx, doabort, dataqueue, pc, retcode, arrived,
      hist>>
medvars == <<obj, input, mpc, obj2, mops, mres>>
vars == <<loopvars, lib, calls, lastexc, medvars>>

\* no Read was made yet
NoResult == [res |-> FALSE, size |-> 0, stat |-> 0, err |-> "none"]

NoAddr == [addr |-> <<0, 0, 0, 0>>, port |-> 0]

LibInit ==
    [st |-> [h \in Handles |-> "NONEXIST"],
     next |-> FirstSock,
     closes |-> [h \in Handles |-> 0],
     lasterr |-> FALSE,
     bound |-> [h \in Handles |-> NoAddr],
     peer |-> [h \in Handles |-> NoAddr],
     sysnext |-> 1,
     sysopen |-> {},
     member |-> {},
     pre |-> [h \in Handles |-> <<>>],
     post |-> [h \in Handles |-> <<>>],
     parent |-> [h \in Handles |-> SRT_INVALID_SOCK]]

\* the context of an operation on medium m in the current library state
MkX(m, fail) ==
    [m |-> m, st |-> lib.st, next |-> lib.next, closes |-> lib.closes,
     lasterr |-> lib.lasterr, bound |-> lib.bound, peer |-> lib.peer,
     sysnext |-> lib.sysnext, sysopen |-> lib.sysopen,
     member |-> lib.member, pre |-> lib.pre, post |-> lib.post,
     parent |-> lib.parent,
     calls |-> <<>>, exc |-> "none", what |-> "", fail |-> fail]

LibOf(X) ==
    [st |-> X.st, next |-> X.next, closes |-> X.closes,
     lasterr |-> X.lasterr, bound |-> X.bound, peer |-> X.peer,
     sysnext |-> X.sysnext, sysopen |-> X.sysopen, member |-> X.member,
     pre |-> X.pre, post |-> X.post, parent |-> X.parent]

ExcOf(X) == [exc |-> X.exc, what |-> X.what]
NoException == [exc |-> "none", what |-> ""]

\* library calls the environment can make fail during construction
CtorFailures ==
    {"none", "srt_socket", "ConfigurePre", "srt_bind", "srt_listen",
     "srt_connect", "ConfigurePost", "SRTO_RENDEZVOUS", "socket", "ioctl",
     "IP_ADD_MEMBERSHIP", "bind"}

\* main(): -c option; 0 means the default and leaves transmit_chunk_size
ChunkOf(text) ==
    LET c == stoi(text, 0).val
    IN  IF c = 0 THEN SRT_LIVE_DEF_PLSIZE ELSE c

TransmitChunkSizeOf(text) ==
    LET c == stoi(text, 0).val
    IN  IF c = 0 THEN SRT_LIVE_DEF_PLSIZE ELSE c

\* ------------------------------------------------- inputs of the models
ChunkOpts ==
    {0, 1, SRT_LIVE_DEF_PLSIZE, SRT_LIVE_MAX_PLSIZE, SRT_LIVE_MAX_PLSIZE + 1}
ChunkTexts == {Sprint(n) : n \in ChunkOpts}

PortTexts ==
    {<<>>, Sprint(MinPort), Sprint(MinPort + 1),
     <<"-", "9", "0", "0", "0">>, <<"9", "0", "0", "0">>}
ModeTexts ==
    {"default", "caller", "listener", "rendezvous", "client", "server",
     "bogus"}

Maps(keys, vals) == UNION {[d -> vals] : d \in SUBSET keys}
Merge(f, g) ==
    [k \in DOMAIN f \cup DOMAIN g |-> IF k \in DOMAIN g THEN g[k] ELSE f[k]]

SrtParams ==
    {Merge(Merge(a, b), c) :
        a \in Maps({"mode"}, ModeTexts),
        b \in Maps({"adapter"}, {"10.0.0.2"}),
        c \in Maps({"transtype"}, {"file"})}

UdpParams ==
    {Merge(a, b) :
        a \in Maps({"adapter"}, {"10.0.0.2"}),
        b \in Maps({"multicast"}, {"1"})}

UdpHosts ==
    {"", "10.0.0.1", "223.9.9.9", "224.0.0.5", "239.1.1.1", "240.1.1.1"}

MediumInputs ==
    [u : [type : {"SRT"}, host : {"", "10.0.0.1"},
          port : PortTexts, parameters : SrtParams],
     isOutput : BOOLEAN, chunktext : ChunkTexts]
    \cup
    [u : [type : {"UDP"}, host : UdpHosts,
          port : PortTexts, parameters : UdpParams],
     isOutput : BOOLEAN, chunktext : {Sprint(0)}]
    \cup
    [u : [type : {"FILE"}, host : {""}, port : {<<>>},
          parameters : {EmptyMap}],
     isOutput : BOOLEAN, chunktext : {Sprint(0)}]

\* creates       calls of Source::Create and of Target::Create so far
\* nread         chunks read from the source so far
\* rdsize        size requested by the last Read
\* plenty        the source had at least BatchSize chunks ready when the
\*               last poll wait returned
\* batchRead     chunks read since the last poll wait, in order
\* batchWritten  chunks written since the last poll wait, in order
\* skipped       a chunk was discarded since the last poll wait because
\*               the target was not open
\* ctorfail      side (1 source, 2 target) whose Create gave no medium
HistInit ==
    [creates |-> <<0, 0>>, nread |-> 0, rdsize |-> 0, plenty |-> FALSE,
     batchRead |-> <<>>, batchWritten |-> <<>>, skipped |-> FALSE,
     ctorfail |-> 0, said |-> "none", unexpected |-> FALSE, waitret |-> 0]
\* the message about a connection that one pass over a ready socket wrote
Said(msg) == [hist EXCEPT !.said = msg]

LoopIdle ==
    /\ autoreconnect = TRUE
    /\ params = <<NULL, NULL>>
    /\ chunk = SRT_LIVE_DEF_PLSIZE
    /\ transmit_chunk_size = SRT_LIVE_DEF_PLSIZE
    /\ int_state = FALSE /\ timer_state = FALSE /\ alarm_at = "idle"
    /\ src = NULL /\ tar = NULL
    /\ srcConnected = FALSE /\ tarConnected = FALSE
    /\ pollset = {} /\ srtrfds = <<>> /\ sysrfdslen = 0
    /\ idx = 0 /\ doabort = FALSE /\ dataqueue = <<>>
    /\ pc = "idle" /\ retcode = -1
    /\ arrived = 0
    /\ hist = HistInit

\* ------------------------------------------- one medium, outside the loop
InitMedium ==
    /\ LoopIdle
    /\ lib = LibInit
    /\ calls = <<>>
    /\ lastexc = NoException
    /\ obj = NULL
    /\ input \in MediumInputs
    /\ mpc = "new"
    /\ obj2 = NULL
    /\ mops = <<>>
    /\ mres = NoResult

\* Source::Create(uri) / Target::Create(uri) under the -c option given
MCreated(X) ==
    /\ obj' = X.m
    /\ lib' = LibOf(X)
    /\ calls' = X.calls
    /\ lastexc' = ExcOf(X)

MCreate ==
    /\ mpc = "new"
    /\ \E fail \in CtorFailures :
         MCreated(CreateMedium(MkX(NULL, fail), input.u, input.isOutput,
                               TransmitChunkSizeOf(input.chunktext)))
    /\ mpc' = "created"
    /\ UNCHANGED <<loopvars, input, obj2, mops, mres>>

MParsed(X) ==
    /\ obj' = X.m
    /\ lastexc' = ExcOf(X)

\* SrtCommon::InitParameters alone, on a fresh object
MInitParameters ==
    /\ mpc = "new"
    /\ input.u.type = "SRT"
    /\ MParsed(InitParameters(
                  [MkX(SrtCommonDefault, "none") EXCEPT
                      !.m.m_output_direction = input.isOutput],
                  input.u.host, input.u.parameters,
                  TransmitChunkSizeOf(input.chunktext)))
    /\ mpc' = "params"
    /\ UNCHANGED <<loopvars, input, lib, calls, obj2, mops, mres>>

NextMedium == MCreate \/ MInitParameters

SpecMedium == InitMedium /\ [][NextMedium]_vars


\* ======================================================== the event loop
\* faulty variant: the PRE phase is run on the accepted socket as well
AcceptConfigure_PreAgain(X, sock) ==
    ConfigurePost(ConfigurePre(X, sock).X, sock)
\* int stat = ConfigurePost(m_sock);
AcceptConfigure(X, sock) == ConfigurePost(X, sock)

\* SrtCommon::AcceptNewClient; the socket srt_accept returns is a child of
\* the listening one
AcceptNewClient(X) ==
    LET ok == /\ ~Fails(X, "srt_accept")
              /\ SockState(X, X.m.m_bindsock) = "LISTENING"
        ns == IF ok THEN X.next ELSE SRT_INVALID_SOCK
        X1 == IF ok
              THEN [LibCall(X, "srt_accept") EXCEPT
                       !.st[ns] = "CONNECTED", !.next = @ + 1,
                       !.parent[ns] = X.m.m_bindsock,
                       !.m.m_sock = ns]
              ELSE [LibFail(X, "srt_accept") EXCEPT !.m.m_sock = ns]
        X2 == srt_close(X1, X1.m.m_bindsock)
        c == AcceptConfigure(X2, X2.m.m_sock)
    IN  IF ~ok THEN [res |-> FALSE, X |-> Error(X2, "srt_accept")]
        ELSE IF c.res = -1
        THEN [res |-> FALSE, X |-> Error(c.X, "ConfigurePost")]
        ELSE [res |-> TRUE, X |-> c.X]

\* Source/Target::GetSRTSocket: the active handle, else the listening one;
\* a medium that is not SRT has none
GetSRTSocket(m) ==
    IF m.type # "SRT" THEN SRT_INVALID_SOCK
    ELSE IF m.m_sock # SRT_INVALID_SOCK THEN m.m_sock
    ELSE m.m_bindsock

srt_getsockstate(s) == IF s \in Handles THEN lib.st[s] ELSE "NONEXIST"

\* Target::IsOpen
IsOpen(m) ==
    IF m.type = "SRT"
    THEN srt_getsockstate(m.m_sock) \in
            {"OPENED", "LISTENING", "CONNECTING", "CONNECTED"}
    ELSE m.m_sock # -1

\* ---------------------------------------------------- Read and Write
\* what srt_recvmsg / srt_sendmsg2 return on failure
SRT_ERROR == -1

\* the answers srt_recvmsg(m_sock, data, chunk) / recvfrom can give: the
\* size of the message received (one of sizes, when the peer has sent),
\* 0 at the end of the stream, or an error with its code
RecvResults(X, avail, sizes) ==
    IF X.m.type = "SRT"
    THEN LET st == SockState(X, X.m.m_sock)
         IN  CASE st = "CONNECTED" ->
                    IF avail
                    THEN {[stat |-> n, err |-> "none"] : n \in sizes}
                    ELSE {[stat |-> SRT_ERROR,
                           err |-> IF X.m.m_blocking_mode
                                   THEN "SRT_ETIMEOUT"
                                   ELSE "SRT_EASYNCRCV"]}
               [] st = "BROKEN" ->
                    IF avail
                    THEN {[stat |-> n, err |-> "none"] : n \in sizes}
                         \cup {[stat |-> SRT_ERROR, err |-> "SRT_ECONNLOST"]}
                    ELSE {[stat |-> SRT_ERROR, err |-> "SRT_ECONNLOST"],
                          [stat |-> 0, err |-> "none"]}
               [] OTHER -> {[stat |-> SRT_ERROR, err |-> "SRT_ENOCONN"]}
    ELSE IF avail
    THEN {[stat |-> n, err |-> "none"] : n \in sizes}
    ELSE {[stat |-> SRT_ERROR, err |-> "EWOULDBLOCK"]}

\* faulty variant: nothing to read is reported like any other failure
NoDataYet_Never(blocking, err) == FALSE
\* if ( !m_blocking_mode ) if ( srt_getlasterror(NULL) == SRT_EASYNCRCV )
NoDataYet(blocking, err) == ~blocking /\ err = "SRT_EASYNCRCV"

\* SrtSource::Read(chunk, data) on the answer r of srt_recvmsg, with data
\* of size chunk on entry: the result, the size of data on exit, and the
\* context left
SrtSourceRead(X, nbytes, r) ==
    IF r.stat = SRT_ERROR
    THEN IF NoDataYet(X.m.m_blocking_mode, r.err)
         THEN [res |-> FALSE, size |-> 0,
               X |-> LibFail(X, "srt_recvmsg")]
         ELSE [res |-> FALSE, size |-> nbytes,
               X |-> Error(LibFail(X, "srt_recvmsg"), "recvmsg")]
    ELSE IF r.stat = 0
    THEN [res |-> FALSE, size |-> nbytes,
          X |-> Throw(LibCall(X, "srt_recvmsg"), "ReadEOF", "recvmsg")]
    ELSE [res |-> TRUE,
          size |-> IF r.stat < nbytes THEN r.stat ELSE nbytes,
          X |-> LibCall(LibCall(X, "srt_recvmsg"), "srt_bstats")]

\* UdpSource::Read: every failure of recvfrom returns false, data cleared
UdpSourceRead(X, nbytes, r) ==
    IF r.stat < 1
    THEN [res |-> FALSE, size |-> 0, X |-> SysCall(X, "recvfrom")]
    ELSE [res |-> TRUE,
          size |-> IF r.stat < nbytes THEN r.stat ELSE nbytes,
          X |-> SysCall(X, "recvfrom")]

\* src->Read(chunk, *pdata)
SourceRead(X, nbytes, r) ==
    IF X.m.type = "SRT" THEN SrtSourceRead(X, nbytes, r)
    ELSE UdpSourceRead(X, nbytes, r)

\* the answers srt_sendmsg2 / sendto can give: the send succeeds only on
\* a connected socket, and even there it can fail
SendResults(X, size) ==
    IF X.m.type = "SRT"
    THEN IF SockState(X, X.m.m_sock) = "CONNECTED"
         THEN {[stat |-> size, err |-> "none"],
               [stat |-> SRT_ERROR, err |-> "SRT_ECONNLOST"]}
         ELSE {[stat |-> SRT_ERROR, err |-> "SRT_ENOCONN"]}
    ELSE {[stat |-> size, err |-> "none"],
          [stat |-> SRT_ERROR, err |-> "ENETUNREACH"]}

\* SrtTarget::Write / UdpTarget::Write on the answer r of the send
TargetWrite(X, r) ==
    IF X.m.type = "SRT"
    THEN IF r.stat = SRT_ERROR
         THEN Error(LibFail(X, "srt_sendmsg2"), "srt_sendmsg")
         ELSE LibCall(X, "srt_sendmsg2")
    ELSE IF r.stat = -1
    THEN UdpError(SysCall(X, "sendto"), "UDP Write/sendto")
    ELSE SysCall(X, "sendto")

\* ------------------------ the life of a medium, outside the loop
\* operations made on the instances after the construction
MaxOps == 3

\* faulty variant: the instance stolen from keeps its handle
StolenFrom_Keeps(src0) == src0
\* src.m_sock = SRT_INVALID_SOCK; // STEALING
StolenFrom(src0) == [src0 EXCEPT !.m_sock = SRT_INVALID_SOCK]

\* SrtCommon::StealFrom(src): the receiving instance and what is left of src
StealFrom(this, src0) ==
    [this |-> [this EXCEPT
                  !.m_output_direction = src0.m_output_direction,
                  !.m_blocking_mode = src0.m_blocking_mode,
                  !.m_timeout = src0.m_timeout,
                  !.m_tsbpdmode = src0.m_tsbpdmode,
                  !.m_options = src0.m_options,
                  !.m_bindsock = SRT_INVALID_SOCK,
                  !.m_sock = src0.m_sock],
     src |-> StolenFrom(src0)]

TimeoutText == <<"5">>
PinnedPortText == <<"5", "0", "0", "0">>

MaxbwText == <<"1", "0", "0", "0">>

LifeParams ==
    {Merge(Merge(Merge(a, b), Merge(c, d)), e) :
        a \in Maps({"mode"}, {"rendezvous"}),
        b \in Maps({"tsbpd"}, {"no"}),
        c \in Maps({"port"}, {PinnedPortText}),
        d \in Maps({"timeout"}, {TimeoutText}),
        e \in Maps({"maxbw"}, {MaxbwText})}

LifeInputs ==
    [u : [type : {"SRT"}, host : {"", "10.0.0.1"},
          port : {<<"9", "0", "0", "0">>}, parameters : LifeParams],
     isOutput : BOOLEAN, chunktext : {Sprint(0)}]

\* the medium is not made yet; the second instance is a fresh object
InitLife ==
    /\ LoopIdle
    /\ lib = LibInit
    /\ calls = <<>>
    /\ lastexc = NoException
    /\ obj = NULL
    /\ input \in LifeInputs
    /\ mpc = "new"
    /\ obj2 = SrtCommonDefault
    /\ mops = <<>>
    /\ mres = NoResult

Usable == mpc \in {"created", "used"} /\ obj # NULL /\ Len(mops) < MaxOps

Operated(X, op) ==
    /\ lib' = LibOf(X)
    /\ calls' = X.calls
    /\ lastexc' = ExcOf(X)
    /\ mops' = Append(mops, op)
    /\ mpc' = "used"

\* obj->AcceptNewClient(), a client waiting on the listening socket if
\* there is one
MAcceptNewClient ==
    /\ Usable
    /\ lib.next \in Handles
    /\ \E fail \in {"none", "srt_accept", "ConfigurePost"} :
         LET a == AcceptNewClient(MkX(obj, fail))
         IN  /\ Operated(a.X, "AcceptNewClient")
             /\ obj' = a.X.m
    /\ UNCHANGED <<loopvars, input, obj2, mres>>

\* obj->Close() / obj2->Close()
MClose ==
    /\ Usable
    /\ \/ /\ Operated(Close(MkX(obj, "none")), "Close")
          /\ UNCHANGED <<obj, obj2>>
       \/ /\ Operated(Close(MkX(obj2, "none")), "obj2.Close")
          /\ UNCHANGED <<obj, obj2>>
    /\ UNCHANGED <<loopvars, input, mres>>

\* obj2->StealFrom(*obj) / obj->StealFrom(*obj2)
MStealFrom ==
    /\ Usable
    /\ \/ /\ obj2' = StealFrom(obj2, obj).this
          /\ obj' = StealFrom(obj2, obj).src
          /\ mops' = Append(mops, "obj2.StealFrom(obj)")
       \/ /\ obj' = StealFrom(obj, obj2).this
          /\ obj2' = StealFrom(obj, obj2).src
          /\ mops' = Append(mops, "obj.StealFrom(obj2)")
    /\ mpc' = "used"
    /\ UNCHANGED <<loopvars, input, lib, calls, lastexc, mres>>

\* what follows  obj->Read(chunk, data)  with the result rd on the answer r
ReadDone(rd, r) ==
    /\ Operated(rd.X, "Read")
    /\ mres' = [res |-> rd.res, size |-> rd.size,
                stat |-> r.stat, err |-> r.err]

\* obj->Read(chunk, data), the peer having sent a message (of one byte or
\* of a full chunk) or not
MRead ==
    /\ Usable
    /\ \E avail \in BOOLEAN :
         \E r \in RecvResults(MkX(obj, "none"), avail, {1, chunk}) :
           ReadDone(SourceRead(MkX(obj, "none"), chunk, r), r)
    /\ UNCHANGED <<loopvars, input, obj, obj2>>

\* the connection of a socket of the medium is lost
MConnectionBreaks ==
    /\ Usable
    /\ \E h \in Handles :
         /\ lib.st[h] \in {"CONNECTING", "CONNECTED"}
         /\ lib' = [lib EXCEPT !.st[h] = "BROKEN"]
    /\ UNCHANGED <<loopvars, calls, lastexc, medvars>>

NextLife ==
    \/ MCreate
    \/ MAcceptNewClient
    \/ MClose
    \/ MStealFrom
    \/ MRead
    \/ MConnectionBreaks

SpecLife == InitLife /\ [][NextLife]_vars

\* ============================================================== SrtModel
\* the object before the constructor body: the members of SrtCommon and
\* those SrtModel adds
SrtModelDefault ==
    SrtCommonDefault @@ [is_caller |-> FALSE, m_host |-> "", m_port |-> 0]

\* SrtModel::SrtModel(host, port, par)
SrtModel(X, host, port, par, chunksize) ==
    LET X1 == InitParameters(X, host, par, chunksize)
        X2 == IF X1.m.m_mode = "caller"
              THEN [X1 EXCEPT !.m.is_caller = TRUE]
              ELSE X1
    IN  IF ~NoExc(X1) THEN X1
        ELSE IF X1.m.m_mode # "caller" /\ X1.m.m_mode # "listener"
        THEN Throw(X1, "invalid_argument",
                   "Only caller and listener modes supported")
        ELSE [X2 EXCEPT !.m.m_host = host, !.m.m_port = port]

\* the local port of a socket: the one it was bound to, else the one the
\* system gave it when it connected
EphemeralPort(h) == 49152 + h
srt_getsockname(X, h) ==
    IF X.bound[h].port # 0 THEN X.bound[h].port ELSE EphemeralPort(h)

\* SRTSOCKET Listener()
Listener(m) == m.m_bindsock

\* faulty variant: the port the system chose is never taken over
DiscoversPort_Never(m) == FALSE
\* if (m_outgoing_port == 0)
DiscoversPort(m) == m.m_outgoing_port = 0

\* SrtModel::Establish(name)
Establish(X, name) ==
    IF X.m.is_caller
    THEN LET X1 == PrepareClient(X)
             X2 == IF name # "" THEN LibCall(X1, "UDT::setstreamid")
                   ELSE X1
             X3 == IF X2.m.m_outgoing_port # 0
                   THEN SetupAdapter(X2, "", X2.m.m_outgoing_port)
                   ELSE X2
             X4 == ConnectClient(X3, X3.m.m_host, X3.m.m_port)
         IN  IF ~NoExc(X1) THEN X1
             ELSE IF ~NoExc(X3) THEN X3
             ELSE IF ~NoExc(X4) THEN X4
             ELSE IF ~DiscoversPort(X4.m) THEN X4
             ELSE IF Fails(X, "srt_getsockname")
             THEN Error(LibFail(X4, "srt_getsockname"), "srt_getsockname")
             ELSE [LibCall(X4, "srt_getsockname") EXCEPT
                      !.m.m_outgoing_port = srt_getsockname(X4, X4.m.m_sock)]
    ELSE LET X1 == IF Listener(X.m) = SRT_INVALID_SOCK
                   THEN PrepareListener(X, X.m.m_adapter, X.m.m_port, 5)
                   ELSE X
             a == AcceptNewClient(X1)
         IN  IF ~NoExc(X1) THEN X1
             ELSE IF ~NoExc(a.X) THEN a.X
             ELSE LibCall(a.X, "UDT::getstreamid")

\* ------------------------------------------------- a model and its user
ModelParams ==
    {Merge(Merge(a, b), c) :
        a \in Maps({"mode"}, {"rendezvous"}),
        b \in Maps({"port"}, {PinnedPortText, Sprint(0)}),
        c \in Maps({"timeout"}, {TimeoutText})}

ModelInputs ==
    [u : [type : {"SRT"}, host : {"", "10.0.0.1"},
          port : {<<"9", "0", "0", "0">>}, parameters : ModelParams],
     isOutput : {FALSE}, chunktext : {Sprint(0)}]

InitModel ==
    /\ LoopIdle
    /\ lib = LibInit
    /\ calls = <<>>
    /\ lastexc = NoException
    /\ obj = NULL
    /\ input \in ModelInputs
    /\ mpc = "new"
    /\ obj2 = SrtCommonDefault
    /\ mops = <<>>
    /\ mres = NoResult

\* library calls the environment can make fail during Establish
EstablishFailures ==
    {"none", "srt_socket", "ConfigurePre", "srt_bind", "srt_listen",
     "srt_connect", "ConfigurePost", "srt_accept", "srt_getsockname"}

\* obj = new SrtModel(host, port, par)
ModelCreate ==
    /\ mpc = "new"
    /\ MCreated(SrtModel(MkX(SrtModelDefault, "none"), input.u.host,
                         atoi(input.u.port), input.u.parameters,
                         TransmitChunkSizeOf(input.chunktext)))
    /\ mpc' = "created"
    /\ UNCHANGED <<loopvars, input, obj2, mops, mres>>

\* the constructor returned and the user may go on
ModelUsable ==
    /\ mpc \in {"created", "used"}
    /\ lastexc.exc \notin {"invalid_argument", "runtime_error"}
    /\ Len(mops) < MaxOps

\* obj->Establish(name), a client waiting on the listening socket if there
\* is one
ModelEstablish ==
    /\ ModelUsable
    /\ lib.next + (IF ~obj.is_caller /\ Listener(obj) = SRT_INVALID_SOCK
                    THEN 1 ELSE 0) \in Handles
    /\ \E fail \in EstablishFailures, name \in {"", "live"} :
         LET X == Establish(MkX(obj, fail), name)
         IN  /\ Operated(X, "Establish")
             /\ obj' = X.m
    /\ UNCHANGED <<loopvars, input, obj2, mres>>

\* medium->StealFrom(*obj): the user takes the connected socket over
ModelStealFrom ==
    /\ ModelUsable
    /\ obj2' = StealFrom(obj2, obj).this
    /\ obj' = StealFrom(obj2, obj).src
    /\ mops' = Append(mops, "obj2.StealFrom(obj)")
    /\ mpc' = "used"
    /\ UNCHANGED <<loopvars, input, lib, calls, lastexc, mres>>

\* the handshake of a connecting socket completes, or a connection is lost
ModelPeer ==
    /\ ModelUsable
    /\ \E h \in Handles :
         \/ /\ lib.st[h] = "CONNECTING"
            /\ lib' = [lib EXCEPT !.st[h] = "CONNECTED"]
         \/ /\ lib.st[h] \in {"CONNECTING", "CONNECTED"}
            /\ lib' = [lib EXCEPT !.st[h] = "BROKEN"]
    /\ UNCHANGED <<loopvars, calls, lastexc, medvars>>

NextModel ==
    \/ ModelCreate
    \/ ModelEstablish
    \/ ModelStealFrom
    \/ ModelPeer

SpecModel == InitModel /\ [][NextModel]_vars

\* chunks of the source's stream are numbered in arrival order
Avail == arrived - hist.nread

\* faulty variant: the exception is swallowed and the loop goes on
Exit_Continues(code) == /\ pc' = "loop" /\ retcode' = code
\* return code;  (the catch handler and the statements after the loop)
Exit(code) == /\ pc' = "done" /\ retcode' = code
\* return 1 on a medium that cannot be created or registered
SetupExit == 1
\* faulty variant: the handler returns what a failed set-up returns
CatchExit_AsSetup == SetupExit
\* catch (std::exception& x) { ...; return 255; }
CatchExit == 255
\* faulty variant: a lost connection never aborts
LossAborts_Never == FALSE
\* if (!autoreconnect) doabort = true;
LossAborts == ~autoreconnect
\* faulty variant: the handle stays in the poll set
srt_epoll_remove_usock_Keeps(set, s) == set
\* srt_epoll_remove_usock(pollid, s)
srt_epoll_remove_usock(set, s) == set \ {s}
\* srt_epoll_add_usock(pollid, s, &events)
srt_epoll_add_usock(set, s) == set \cup {s}
\* the process is killed on an access through a null pointer
Crash == /\ pc' = "crashed" /\ retcode' = 139

Running == pc \notin {"done", "crashed", "idle"}

\* faulty variant: the alarm flag is not looked at
LoopCondition_NoAlarm == ~int_state
\* the condition of  while (!int_state && !timer_state)
LoopCondition == ~int_state /\ ~timer_state

\* the head of the loop; leaving it reaches  return 0
LoopHead ==
    /\ pc = "loop"
    /\ IF ~LoopCondition THEN Exit(0)
       ELSE /\ pc' = "create_src"
            /\ retcode' = retcode
    /\ UNCHANGED <<autoreconnect, params, chunk, transmit_chunk_size,
                   int_state, timer_state, alarm_at, src, tar, srcConnected,
                   tarConnected, pollset, srtrfds, sysrfdslen, idx, doabort,
                   dataqueue, arrived, hist, lib, calls, lastexc, medvars>>

\* what follows  src = Source::Create(params[0])  in the context X the
\* call left: the test of the result and the registration
SourceCreated(X, addfails) ==
    /\ lib' = LibOf(X)
    /\ calls' = X.calls
    /\ lastexc' = ExcOf(X)
    /\ hist' = [hist EXCEPT !.creates[1] = @ + 1,
                            !.ctorfail = IF X.m = NULL THEN 1 ELSE @]
    /\ IF ~NoExc(X)
       THEN Exit(CatchExit) /\ UNCHANGED <<src, pollset>>
       ELSE IF X.m = NULL
       THEN Exit(SetupExit) /\ UNCHANGED <<src, pollset>>
       ELSE /\ src' = X.m
            /\ IF X.m.uri.type = "SRT"
               THEN IF addfails
                    THEN Exit(SetupExit) /\ UNCHANGED pollset
                    ELSE /\ pollset' = srt_epoll_add_usock(
                                          pollset, GetSRTSocket(X.m))
                         /\ pc' = "create_tar"
                         /\ retcode' = retcode
               ELSE IF addfails
               THEN Exit(SetupExit) /\ UNCHANGED pollset
               ELSE /\ pollset' = pollset
                    /\ pc' = "create_tar"
                    /\ retcode' = retcode

\* if (!src.get()) { src = Source::Create(params[0]); ... register }
CreateSource ==
    /\ pc = "create_src"
    /\ IF src # NULL
       THEN /\ pc' = "create_tar"
            /\ UNCHANGED <<src, pollset, retcode, lib, calls, lastexc, hist>>
       ELSE /\ lib.next \in Handles
            /\ hist.creates[1] < MaxSock
            /\ \E fail \in CtorFailures, addfails \in BOOLEAN :
                 SourceCreated(CreateMedium(MkX(NULL, fail), params[1], FALSE,
                                            transmit_chunk_size),
                               addfails)
    /\ UNCHANGED <<autoreconnect, params, chunk, transmit_chunk_size,
                   int_state, timer_state, alarm_at, tar, srcConnected, tarConnected,
                   srtrfds, sysrfdslen, idx, doabort, dataqueue, arrived,
                   medvars>>

\* what follows  tar = Target::Create(params[1])  in the context X the
\* call left: the test made on src, then tar->uri.type() and the
\* registration. With no target the read through the null pointer either
\* kills the process or yields some value (garbage)
TargetCreated(X, addfails, garbage) ==
    /\ lib' = LibOf(X)
    /\ calls' = X.calls
    /\ lastexc' = ExcOf(X)
    /\ hist' = [hist EXCEPT !.creates[2] = @ + 1,
                            !.ctorfail = IF X.m = NULL THEN 2 ELSE @]
    /\ IF ~NoExc(X)
       THEN Exit(CatchExit) /\ UNCHANGED <<tar, pollset>>
       ELSE IF src = NULL
       THEN Exit(SetupExit) /\ UNCHANGED <<tar, pollset>>
       ELSE IF X.m = NULL
       THEN /\ UNCHANGED <<tar, pollset>>
            /\ IF garbage = "other"
               THEN pc' = "wait" /\ retcode' = retcode
               ELSE Crash
       ELSE /\ tar' = X.m
            /\ IF X.m.uri.type = "SRT"
               THEN IF addfails
                    THEN Exit(SetupExit) /\ UNCHANGED pollset
                    ELSE /\ pollset' = srt_epoll_add_usock(
                                          pollset, GetSRTSocket(X.m))
                         /\ pc' = "wait"
                         /\ retcode' = retcode
               ELSE /\ pollset' = pollset
                    /\ pc' = "wait"
                    /\ retcode' = retcode

\* if (!tar.get()) { tar = Target::Create(params[1]); if (!src.get()) ... }
CreateTarget ==
    /\ pc = "create_tar"
    /\ IF tar # NULL
       THEN /\ pc' = "wait"
            /\ UNCHANGED <<tar, pollset, retcode, lib, calls, lastexc, hist>>
       ELSE /\ lib.next \in Handles
            /\ hist.creates[2] < MaxSock
            /\ \E fail \in CtorFailures, addfails \in BOOLEAN,
                  garbage \in {"SIGSEGV", "SRT", "other"} :
                 TargetCreated(CreateMedium(MkX(NULL, fail), params[2], TRUE,
                                            transmit_chunk_size),
                               addfails, garbage)
    /\ UNCHANGED <<autoreconnect, params, chunk, transmit_chunk_size,
                   int_state, timer_state, alarm_at, src, srcConnected, tarConnected,
                   srtrfds, sysrfdslen, idx, doabort, dataqueue, arrived,
                   medvars>>

\* the sequences of at most two distinct registered handles
ReadyLists ==
    {<<>>} \cup {<<a>> : a \in pollset}
           \cup {p \in pollset \X pollset : p[1] # p[2]}

\* the system sockets in the poll set: that of a UDP source
SysRegistered == IF src # NULL /\ src.type = "UDP" THEN 1 ELSE 0

\* the list holds a handle that is neither the source's nor the target's
Unexpected(ready) ==
    \E i \in 1..Len(ready) :
        /\ src = NULL \/ GetSRTSocket(src) # ready[i]
        /\ tar = NULL \/ GetSRTSocket(tar) # ready[i]

\* what srt_epoll_wait returns: the number of ready sockets, or SRT_ERROR
\* when the timeout passes with nothing ready or a signal interrupts it
WaitResult(ready, nsys) ==
    IF Len(ready) + nsys = 0 THEN SRT_ERROR ELSE Len(ready) + nsys
\* faulty variant: the result of the wait is not looked at
WaitSucceeded_Always(ret) == TRUE
\* if (srt_epoll_wait(...) >= 0)
WaitSucceeded(ret) == ret >= 0

\* srt_epoll_wait(pollid, srtrfds, &srtrfdslen, ..., 100, sysrfds, ...)
EpollWait ==
    /\ pc = "wait"
    /\ \E ready \in ReadyLists, nsys \in 0..SysRegistered :
         IF ~WaitSucceeded(WaitResult(ready, nsys))
         THEN \* the body of the if is skipped
              /\ pc' = "loop"
              /\ hist' = [hist EXCEPT !.plenty = FALSE,
                                      !.batchRead = <<>>,
                                      !.batchWritten = <<>>,
                                      !.skipped = FALSE,
                                      !.unexpected = FALSE,
                                      !.waitret = WaitResult(ready, nsys)]
              /\ UNCHANGED <<srtrfds, sysrfdslen, idx, doabort>>
         ELSE /\ srtrfds' = ready
              /\ sysrfdslen' = nsys
              /\ idx' = 1
              /\ doabort' = FALSE
              /\ hist' = [hist EXCEPT !.plenty = (Avail >= BatchSize),
                                      !.batchRead = <<>>,
                                      !.batchWritten = <<>>,
                                      !.skipped = FALSE,
                                      !.unexpected = Unexpected(ready),
                                      !.waitret = WaitResult(ready, nsys)]
              /\ pc' = "handle"
    /\ UNCHANGED <<autoreconnect, params, chunk, transmit_chunk_size,
                   int_state, timer_state, alarm_at, src, tar, srcConnected,
                   tarConnected, pollset, dataqueue, retcode, arrived, lib,
                   calls, lastexc, medvars>>


\* else if (tar->GetSRTSocket() != s), reached when s is not the source's
IsUnexpected(s) == GetSRTSocket(src) # s /\ GetSRTSocket(tar) # s

\* case LISTENING, after  res = AcceptNewClient()  gave a: the handle
\* numbered like res leaves the poll set and that of the client enters it
ClientAccepted(a, issource, addfails) ==
    /\ lib' = LibOf(a.X)
    /\ calls' = a.X.calls
    /\ lastexc' = ExcOf(a.X)
    /\ hist' = Said("none")
    /\ IF ~NoExc(a.X)
       THEN /\ Exit(CatchExit)
            /\ UNCHANGED <<src, tar, pollset, idx, doabort>>
       ELSE /\ src' = IF issource THEN a.X.m ELSE src
            /\ tar' = IF issource THEN tar ELSE a.X.m
            /\ idx' = idx + 1
            /\ pc' = pc /\ retcode' = retcode
            /\ IF ~a.res
               THEN /\ doabort' = TRUE
                    /\ pollset' = pollset
               ELSE /\ doabort' = (doabort \/ addfails)
                    /\ pollset' =
                         IF addfails
                         THEN srt_epoll_remove_usock(pollset,
                                                     BoolToSock(a.res))
                         ELSE srt_epoll_add_usock(
                                  srt_epoll_remove_usock(pollset,
                                                         BoolToSock(a.res)),
                                  GetSRTSocket(a.X.m))

\* one pass of  for (int i = 0; i < srtrfdslen; i++)  and, after the last
\* pass,  if (doabort) break;  with the test that starts the batch of reads
HandleSocket ==
    /\ pc = "handle"
    /\ IF idx > Len(srtrfds)
       THEN /\ IF doabort THEN Exit(0)
               ELSE IF src # NULL /\ (Len(srtrfds) # 0 \/ sysrfdslen # 0)
               THEN pc' = "read" /\ retcode' = retcode
               ELSE pc' = "write" /\ retcode' = retcode
            /\ hist' = Said("none")
            /\ UNCHANGED <<src, tar, srcConnected, tarConnected, pollset,
                           idx, doabort, lib, calls, lastexc>>
       ELSE LET s == srtrfds[idx] IN
            IF src = NULL
            THEN \* src->GetSRTSocket() through the null pointer
                 /\ Crash
                 /\ hist' = Said("none")
                 /\ UNCHANGED <<src, tar, srcConnected, tarConnected,
                                pollset, idx, doabort, lib, calls, lastexc>>
            ELSE IF GetSRTSocket(src) # s /\ tar = NULL
            THEN \* tar->GetSRTSocket() through the null pointer
                 /\ Crash
                 /\ hist' = Said("none")
                 /\ UNCHANGED <<src, tar, srcConnected, tarConnected,
                                pollset, idx, doabort, lib, calls, lastexc>>
            ELSE IF IsUnexpected(s)
            THEN \* "Unexpected socket poll": leaves the for loop
                 /\ doabort' = TRUE
                 /\ idx' = Len(srtrfds) + 1
                 /\ pc' = pc /\ retcode' = retcode
                 /\ hist' = Said("none")
                 /\ UNCHANGED <<src, tar, srcConnected, tarConnected,
                                pollset, lib, calls, lastexc>>
            ELSE
            LET issource == GetSRTSocket(src) = s
                status == srt_getsockstate(s)
            IN
            CASE status = "LISTENING" ->
                   /\ lib.next \in Handles
                   /\ \E fail \in {"none", "srt_accept", "ConfigurePost"},
                         addfails \in BOOLEAN :
                        ClientAccepted(
                            AcceptNewClient(
                                MkX(IF issource THEN src ELSE tar, fail)),
                            issource, addfails)
                   /\ UNCHANGED <<srcConnected, tarConnected>>
              [] status \in {"BROKEN", "NONEXIST", "CLOSED"} ->
                   /\ srcConnected' =
                        IF issource /\ srcConnected THEN FALSE
                        ELSE srcConnected
                   /\ tarConnected' =
                        IF ~issource /\ ~tarConnected THEN FALSE
                        ELSE tarConnected
                   /\ IF LossAborts
                      THEN /\ doabort' = TRUE
                           /\ UNCHANGED <<src, tar, pollset>>
                      ELSE /\ pollset' = srt_epoll_remove_usock(pollset, s)
                           /\ src' = IF issource THEN NULL ELSE src
                           /\ tar' = IF issource THEN tar ELSE NULL
                           /\ doabort' = doabort
                   /\ idx' = idx + 1
                   /\ pc' = pc /\ retcode' = retcode
                   /\ hist' = Said(IF issource /\ srcConnected
                                    THEN "SRT source disconnected"
                                    ELSE IF ~issource /\ ~tarConnected
                                    THEN "SRT target disconnected"
                                    ELSE "none")
                   /\ UNCHANGED <<lib, calls, lastexc>>
              [] status = "CONNECTED" ->
                   /\ srcConnected' =
                        IF issource /\ ~srcConnected THEN TRUE
                        ELSE srcConnected
                   /\ tarConnected' =
                        IF ~issource /\ ~tarConnected THEN TRUE
                        ELSE tarConnected
                   /\ idx' = idx + 1
                   /\ pc' = pc /\ retcode' = retcode
                   /\ hist' = Said(IF issource /\ ~srcConnected
                                    THEN "SRT source connected"
                                    ELSE IF ~issource /\ ~tarConnected
                                    THEN "SRT target connected"
                                    ELSE "none")
                   /\ UNCHANGED <<src, tar, pollset, doabort, lib, calls,
                                  lastexc>>
              [] OTHER ->
                   /\ idx' = idx + 1
                   /\ pc' = pc /\ retcode' = retcode
                   /\ hist' = Said("none")
                   /\ UNCHANGED <<src, tar, srcConnected, tarConnected,
                                  pollset, doabort, lib, calls, lastexc>>
    /\ UNCHANGED <<autoreconnect, params, chunk, transmit_chunk_size,
                   int_state, timer_state, alarm_at, srtrfds, sysrfdslen, dataqueue,
                   arrived, medvars>>

\* faulty variant: one chunk more is read
BatchFull_Late(q) == Len(q) > BatchSize
\* the exit test of  while (dataqueue.size() < 10)
BatchFull(q) == Len(q) >= BatchSize

\* what follows  src->Read(chunk, *pdata)  with the result rd: an exception
\* leaves the loop, false or an empty buffer ends the batch, and a chunk
\* is queued otherwise
ChunkRead(rd) ==
    /\ lib' = LibOf(rd.X)
    /\ IF ~NoExc(rd.X)
       THEN /\ Exit(CatchExit)
            /\ lastexc' = ExcOf(rd.X)
            /\ UNCHANGED <<dataqueue, hist>>
       ELSE IF ~rd.res \/ rd.size = 0
       THEN /\ pc' = "write"
            /\ hist' = [hist EXCEPT !.rdsize = chunk]
            /\ UNCHANGED <<dataqueue, retcode, lastexc>>
       ELSE /\ dataqueue' = Append(dataqueue, hist.nread + 1)
            /\ hist' = [hist EXCEPT
                          !.nread = @ + 1,
                          !.rdsize = chunk,
                          !.batchRead = Append(@, hist.nread + 1)]
            /\ pc' = pc
            /\ UNCHANGED <<retcode, lastexc>>

\* while (dataqueue.size() < 10) { if (!src->Read(chunk, *pdata) || ...) }
ReadChunk ==
    /\ pc = "read"
    /\ IF BatchFull(dataqueue)
       THEN /\ pc' = "write"
            /\ UNCHANGED <<dataqueue, retcode, hist, lib, lastexc>>
       ELSE \E r \in RecvResults(MkX(src, "none"), Avail > 0, {chunk}) :
              ChunkRead(SourceRead(MkX(src, "none"), chunk, r))
    /\ UNCHANGED <<autoreconnect, params, chunk, transmit_chunk_size,
                   int_state, timer_state, alarm_at, src, tar, srcConnected,
                   tarConnected, pollset, srtrfds, sysrfdslen, idx, doabort,
                   arrived, calls, medvars>>

\* faulty variant: the chunk written stays at the front of the queue
ChunkWritten_NoPop(X) ==
    /\ lib' = LibOf(X)
    /\ IF NoExc(X)
       THEN /\ dataqueue' = dataqueue
            /\ hist' = [hist EXCEPT
                          !.batchWritten = Append(@, Head(dataqueue))]
            /\ UNCHANGED <<pc, retcode, lastexc>>
       ELSE /\ Exit(CatchExit)
            /\ lastexc' = ExcOf(X)
            /\ UNCHANGED <<dataqueue, hist>>
\* what follows  tar->Write(*pdata)  in the context X it left
ChunkWritten(X) ==
    /\ lib' = LibOf(X)
    /\ IF NoExc(X)
       THEN /\ dataqueue' = Tail(dataqueue)
            /\ hist' = [hist EXCEPT
                          !.batchWritten = Append(@, Head(dataqueue))]
            /\ UNCHANGED <<pc, retcode, lastexc>>
       ELSE /\ Exit(CatchExit)
            /\ lastexc' = ExcOf(X)
            /\ UNCHANGED <<dataqueue, hist>>

\* faulty variant: the queue outlives the iteration
QueueDestroyed_Kept(q) == q
\* the closing brace of the block that declares  std::list<...> dataqueue:
\* the queue is destroyed with what it still holds
QueueDestroyed(q) == <<>>

\* while (tar.get() && !dataqueue.empty()) { if (tar->IsOpen()) Write; pop }
WriteChunk ==
    /\ pc = "write"
    /\ IF tar = NULL \/ dataqueue = <<>>
       THEN /\ pc' = "loop"
            /\ dataqueue' = QueueDestroyed(dataqueue)
            /\ UNCHANGED <<retcode, lastexc, hist, lib>>
       ELSE IF ~IsOpen(tar)
       THEN /\ dataqueue' = Tail(dataqueue)
            /\ hist' = [hist EXCEPT !.skipped = TRUE]
            /\ UNCHANGED <<pc, retcode, lastexc, lib>>
       ELSE \E r \in SendResults(MkX(tar, "none"), chunk) :
              ChunkWritten(TargetWrite(MkX(tar, "none"), r))
    /\ UNCHANGED <<autoreconnect, params, chunk, transmit_chunk_size,
                   int_state, timer_state, alarm_at, src, tar, srcConnected,
                   tarConnected, pollset, srtrfds, sysrfdslen, idx, doabort,
                   arrived, calls, medvars>>

\* ------------------------------------------------------- signal handlers
OnINT_ForceExit ==
    /\ Running
    /\ int_state' = TRUE
    /\ UNCHANGED <<autoreconnect, params, chunk, transmit_chunk_size,
                   timer_state, alarm_at, src, tar, srcConnected, tarConnected,
                   pollset, srtrfds, sysrfdslen, idx, doabort, dataqueue, pc,
                   retcode, arrived, hist, lib, calls, lastexc, medvars>>

\* faulty variant: the handler leaves the alarm flag as it is
AlarmFlag_NotSet == FALSE
\* timer_state = true;
AlarmFlag == TRUE

\* OnAlarm_Interrupt, its first statement:  int_state = false; // JIC
OnAlarm_Interrupt ==
    /\ Running
    /\ alarm_at = "idle"
    /\ int_state' = FALSE
    /\ alarm_at' = "reset"
    /\ UNCHANGED <<autoreconnect, params, chunk, transmit_chunk_size,
                   timer_state, src, tar, srcConnected, tarConnected,
                   pollset, srtrfds, sysrfdslen, idx, doabort, dataqueue, pc,
                   retcode, arrived, hist, lib, calls, lastexc, medvars>>

\* OnAlarm_Interrupt, its second statement:  timer_state = true;  the two
\* flags are separate volatile objects, and the loop, the other handler
\* and the threads of the library run between the two writes
OnAlarm_Return ==
    /\ Running
    /\ alarm_at = "reset"
    /\ timer_state' = (timer_state \/ AlarmFlag)
    /\ alarm_at' = "idle"
    /\ UNCHANGED <<autoreconnect, params, chunk, transmit_chunk_size,
                   int_state, src, tar, srcConnected, tarConnected,
                   pollset, srtrfds, sysrfdslen, idx, doabort, dataqueue, pc,
                   retcode, arrived, hist, lib, calls, lastexc, medvars>>

\* ----------------------------------------------------------- environment
\* the handshake of a connecting socket completes
PeerConnects ==
    /\ Running
    /\ \E h \in Handles :
         /\ lib.st[h] = "CONNECTING"
         /\ lib' = [lib EXCEPT !.st[h] = "CONNECTED"]
    /\ UNCHANGED <<loopvars, calls, lastexc, medvars>>

\* a connection, established or not, is lost
ConnectionBreaks ==
    /\ Running
    /\ \E h \in Handles :
         /\ lib.st[h] \in {"CONNECTING", "CONNECTED"}
         /\ lib' = [lib EXCEPT !.st[h] = "BROKEN"]
    /\ UNCHANGED <<loopvars, calls, lastexc, medvars>>

\* the peer of the source delivers its chunks, in one burst
DataArrives ==
    /\ Running
    /\ src # NULL
    /\ arrived = 0
    /\ arrived' = MaxChunks
    /\ UNCHANGED <<autoreconnect, params, chunk, transmit_chunk_size,
                   int_state, timer_state, alarm_at, src, tar, srcConnected,
                   tarConnected, pollset, srtrfds, sysrfdslen, idx, doabort,
                   dataqueue, pc, retcode, hist, lib, calls, lastexc,
                   medvars>>

\* ------------------------------------------------------------ the program
Location(type, host, port, parameters) ==
    [type |-> type, host |-> host, port |-> port, parameters |-> parameters]

Port9000 == <<"9", "0", "0", "0">>
Port9001 == <<"9", "0", "0", "1">>

SourceLocations ==
    {Location("SRT", "", Port9000, EmptyMap),
     Location("SRT", "10.0.0.1", Port9000, EmptyMap),
     Location("SRT", "10.0.0.1", Sprint(MinPort), EmptyMap),
     Location("SRT", "10.0.0.1", Port9000, [mode |-> "bogus"]),
     Location("FILE", "", <<>>, EmptyMap)}

TargetLocations ==
    {Location("SRT", "", Port9001, EmptyMap),
     Location("SRT", "10.0.0.2", Port9001, EmptyMap),
     Location("FILE", "", <<>>, EmptyMap)}

LoopChunkTexts == {Sprint(0), Sprint(SRT_LIVE_MAX_PLSIZE + 1)}

MediumIdle ==
    /\ obj = NULL
    /\ input = [u |-> Location("FILE", "", <<>>, EmptyMap),
                isOutput |-> FALSE, chunktext |-> Sprint(0)]
    /\ mpc = "idle"
    /\ obj2 = NULL
    /\ mops = <<>>
    /\ mres = NoResult

MainInit ==
    /\ autoreconnect \in BOOLEAN
    /\ params \in SourceLocations \X TargetLocations
    /\ \E text \in LoopChunkTexts :
         /\ chunk = ChunkOf(text)
         /\ transmit_chunk_size = TransmitChunkSizeOf(text)
    /\ int_state = FALSE /\ timer_state = FALSE /\ alarm_at = "idle"
    /\ src = NULL /\ tar = NULL
    /\ srcConnected = FALSE /\ tarConnected = FALSE
    /\ pollset = {} /\ srtrfds = <<>> /\ sysrfdslen = 0
    /\ idx = 0 /\ doabort = FALSE /\ dataqueue = <<>>
    /\ pc = "loop" /\ retcode = -1
    /\ arrived = 0
    /\ hist = HistInit
    /\ lib = LibInit
    /\ calls = <<>>
    /\ lastexc = NoException
    /\ MediumIdle

Next ==
    \/ LoopHead
    \/ CreateSource
    \/ CreateTarget
    \/ EpollWait
    \/ HandleSocket
    \/ ReadChunk
    \/ WriteChunk
    \/ OnINT_ForceExit
    \/ OnAlarm_Interrupt
    \/ OnAlarm_Return
    \/ PeerConnects
    \/ ConnectionBreaks
    \/ DataArrives

Spec == MainInit /\ [][Next]_vars

\* ================================================================ claims
\* ---- helpers of the claims about the loop
\* a step of the program itself, not of its environment
ProgramStep == pc' # pc \/ idx' # idx
LostStates == {"BROKEN", "NONEXIST", "CLOSED"}
\* the for loop is at a ready socket of the source or of the target whose
\* state is Broken, Closed or NonExistent
ObservingLoss ==
    /\ pc = "handle"
    /\ idx \in 1..Len(srtrfds)
    /\ src # NULL
    /\ \/ GetSRTSocket(src) = srtrfds[idx]
       \/ tar # NULL /\ GetSRTSocket(tar) = srtrfds[idx]
    /\ srt_getsockstate(srtrfds[idx]) \in LostStates
ObservedIsSource == GetSRTSocket(src) = srtrfds[idx]
StrictlyIncreasing(q) == \A i \in 1..(Len(q) - 1) : q[i] < q[i + 1]
Range(q) == {q[i] : i \in 1..Len(q)}

\* C1: with auto-reconnect disabled, once the loop observes a ready socket
\* of the source or of the target in state Broken, Closed or NonExistent it
\* marks the iteration as aborted, and from then on no Create is called, no
\* chunk is read or written and the loop never returns to its poll wait: the
\* run ends in that iteration.
C1_StopsOnLoss ==
    [][ /\ (~autoreconnect /\ ObservingLoss /\ ProgramStep) => doabort'
        /\ (~autoreconnect /\ doabort) =>
              /\ doabort'
              /\ hist'.creates = hist.creates
              /\ hist'.nread = hist.nread
              /\ hist'.batchRead = hist.batchRead
              /\ hist'.batchWritten = hist.batchWritten
              /\ dataqueue' = dataqueue
              /\ pc' \in {"handle", "done", "crashed"} ]_vars

C1_Witness ==
    /\ ~autoreconnect
    /\ pc = "done" /\ retcode = 0
    /\ ~int_state /\ ~timer_state
    /\ doabort
    /\ src # NULL
    /\ srt_getsockstate(GetSRTSocket(src)) = "BROKEN"
    /\ hist.nread > 0

\* C2 as stated: with auto-reconnect enabled, observing a lost ready socket
\* of the source (target) removes its handle from the poll set and releases
\* the medium, and at the start of the next iteration a new medium for that
\* side is created from the same location and its socket is registered.
C2_Original ==
    [][ /\ (autoreconnect /\ ObservingLoss /\ ProgramStep) =>
              /\ srtrfds[idx] \notin pollset'
              /\ IF ObservedIsSource THEN src' = NULL ELSE tar' = NULL
        /\ (autoreconnect /\ pc = "create_src" /\ src = NULL
                /\ hist.creates[1] > 0 /\ ProgramStep) =>
              /\ src' # NULL
              /\ src'.uri = params[1]
              /\ GetSRTSocket(src') \in pollset'
        /\ (autoreconnect /\ pc = "create_tar" /\ tar = NULL
                /\ hist.creates[2] > 0 /\ params[2].type = "SRT"
                /\ ProgramStep) =>
              /\ tar' # NULL
              /\ tar'.uri = params[2]
              /\ GetSRTSocket(tar') \in pollset' ]_vars

\* C2 amended: with auto-reconnect enabled, observing a lost ready socket
\* of the source (target) removes its handle from the poll set and releases
\* the medium; an iteration that starts with no flag set goes to the
\* creation of the media, where Create is called again for the released
\* side with the same location. When that yields a medium and its socket
\* registers, the loop goes on with the new medium, made from that location,
\* and its socket in the poll set; otherwise the run ends there, with exit
\* code 255 when the construction raised and 1 when the registration
\* failed.
C2_Reconnect ==
    [][ /\ (autoreconnect /\ ObservingLoss /\ ProgramStep) =>
              /\ srtrfds[idx] \notin pollset'
              /\ IF ObservedIsSource THEN src' = NULL ELSE tar' = NULL
        /\ (pc = "loop" /\ ~int_state /\ ~timer_state /\ ProgramStep) =>
              pc' = "create_src"
        /\ (autoreconnect /\ pc = "create_src" /\ src = NULL
                /\ hist.creates[1] > 0 /\ ProgramStep) =>
              /\ hist'.creates[1] = hist.creates[1] + 1
              /\ params' = params
              /\ IF pc' = "create_tar"
                 THEN /\ src' # NULL
                      /\ src'.uri = params[1]
                      /\ GetSRTSocket(src') \in pollset'
                 ELSE /\ pc' = "done"
                      /\ retcode' = IF lastexc'.exc # "none" THEN 255 ELSE 1
        /\ (autoreconnect /\ pc = "create_tar" /\ tar = NULL
                /\ hist.creates[2] > 0 /\ params[2].type = "SRT"
                /\ ProgramStep) =>
              /\ hist'.creates[2] = hist.creates[2] + 1
              /\ params' = params
              /\ IF pc' = "wait"
                 THEN /\ tar' # NULL
                      /\ tar'.uri = params[2]
                      /\ GetSRTSocket(tar') \in pollset'
                 ELSE /\ pc' = "done"
                      /\ retcode' = IF lastexc'.exc # "none" THEN 255 ELSE 1
      ]_vars

\* the source was lost and released, and the medium made again from the
\* same location is registered and waited on
C2_Witness ==
    /\ autoreconnect
    /\ pc = "wait"
    /\ hist.creates[1] = 2
    /\ src # NULL /\ src.uri = params[1]
    /\ GetSRTSocket(src) \in pollset
    /\ \E h \in Handles : h # GetSRTSocket(src) /\ lib.st[h] = "BROKEN"
                           /\ h \notin pollset

\* C3 as stated: with auto-reconnect enabled no run is ended by the loss of
\* an established connection of the source or of the target, also when the
\* loss is first met by a failing Read or Write. The connection was
\* established: it is that of the only medium made for its side and it
\* carried data (source) or was seen Connected by the loop (target).
C3_LossNeverEnds ==
    autoreconnect =>
        ~ /\ pc = "done"
          /\ \/ /\ lastexc.what = "recvmsg"
                /\ src # NULL
                /\ srt_getsockstate(src.m_sock) = "BROKEN"
                /\ hist.creates[1] = 1
                /\ hist.nread > 0
             \/ /\ lastexc.what = "srt_sendmsg"
                /\ tar # NULL
                /\ tar.type = "SRT"
                /\ srt_getsockstate(tar.m_sock) = "BROKEN"
                /\ hist.creates[2] = 1
                /\ tarConnected

\* C4 as stated: when Target::Create yields no medium the run ends at once
\* with exit code 1.
C4_NoTargetExits ==
    (hist.ctorfail = 2 /\ lastexc.exc = "none") =>
        (pc = "done" /\ retcode = 1)

\* C5 as stated: whenever the construction of the source fails the run ends
\* with exit code 1.
C5_Original ==
    hist.ctorfail = 1 => (pc = "done" /\ retcode = 1)

\* C5 amended: whenever the construction of the source fails the run ends
\* at once: with exit code 1 when the factory yields no medium for the
\* scheme, and with exit code 255 when the construction raises (port not
\* above 1024, invalid mode, chunk size over the ceiling, failing socket
\* call), the exception being caught by the handler around the loop.
C5_ExitCodes ==
    hist.ctorfail = 1 =>
        /\ pc = "done"
        /\ src = NULL
        /\ IF lastexc.exc = "none"
           THEN retcode = 1 /\ params[1].type \notin {"SRT", "UDP"}
           ELSE /\ retcode = 255
                /\ lastexc.exc \in {"invalid_argument", "runtime_error",
                                    "TransmissionError"}
        /\ (atoi(params[1].port) <= 1024 /\ params[1].type = "SRT") =>
              lastexc.what = "Invalid port number"

C5_Witness ==
    /\ hist.ctorfail = 1
    /\ params[1].type = "SRT"
    /\ atoi(params[1].port) = 1024
    /\ pc = "done" /\ retcode = 255

\* ---- helpers of the claims about one medium
InPar(key) == key \in DOMAIN input.u.parameters
PortNumber == atoi(input.u.port)
ConfiguredChunk == stoi(input.chunktext, 0).val
\* the -c value in effect: 0 selects the default
EffectiveChunk ==
    IF ConfiguredChunk = 0 THEN SRT_LIVE_DEF_PLSIZE ELSE ConfiguredChunk
LiveType == ~InPar("transtype") \/ input.u.parameters["transtype"] # "file"
\* InitParameters returned (it raised nothing)
ParamsOk == lastexc.what \notin {"stoi", "chunk size"}
\* the calls of the open path, without those of the clean-up
IsCleanup(c) == c \in {"srt_close", "srt_setsockflag", "close"}
OpenCalls == SelectSeq(calls, LAMBDA c : ~IsCleanup(c))
IsPrefix(a, b) == Len(a) <= Len(b) /\ SubSeq(b, 1, Len(a)) = a

\* C6: for an SRT or UDP location CreateMedium raises invalid-argument and
\* creates no socket when the port is <= 1024; when the port is > 1024 it
\* goes on to construct the medium: the port error is not raised, and unless
\* the configuration of the medium is rejected the first call creates the
\* socket.
C6_PortThreshold ==
    (mpc = "created" /\ input.u.type \in {"SRT", "UDP"}) =>
        IF PortNumber <= 1024
        THEN /\ lastexc = [exc |-> "invalid_argument",
                           what |-> "Invalid port number"]
             /\ obj = NULL
             /\ calls = <<>>
             /\ lib = LibInit
        ELSE /\ lastexc.what # "Invalid port number"
             /\ (lastexc.exc = "none" => obj # NULL /\ obj.type = input.u.type)
             /\ (lastexc.what \notin {"stoi", "chunk size", "Invalid 'mode'"}
                    => /\ Len(calls) > 0
                       /\ calls[1] \in {"srt_socket", "socket"})

C6_Witness ==
    /\ mpc = "created"
    /\ input.u.type = "UDP"
    /\ PortNumber = 1024
    /\ lastexc.exc = "invalid_argument"

\* C7 as stated: on an SRT medium not of file transfer type, a chunk size
\* over 1456 makes InitParameters fail and every chunk size within bounds is
\* carried by the option map as the payload-size option.
C7_Original ==
    (mpc = "params" /\ LiveType) =>
        IF EffectiveChunk > 1456
        THEN lastexc.exc \in {"runtime_error", "invalid_argument"}
        ELSE /\ lastexc.exc = "none"
             /\ "payloadsize" \in DOMAIN obj.m_options
             /\ atoi(obj.m_options["payloadsize"]) = EffectiveChunk

\* C7 amended: a chunk size over 1456 makes InitParameters fail; a chunk
\* size within bounds other than the default 1316 is carried by the option
\* map as the payload-size option; with the default 1316 InitParameters
\* injects nothing and the option map is the location's own.
C7_PayloadSize ==
    (mpc = "params" /\ LiveType) =>
        IF EffectiveChunk > 1456
        THEN lastexc.exc \in {"runtime_error", "invalid_argument"}
        ELSE /\ lastexc.exc = "none"
             /\ IF EffectiveChunk # 1316
                THEN /\ "payloadsize" \in DOMAIN obj.m_options
                     /\ atoi(obj.m_options["payloadsize"]) = EffectiveChunk
                ELSE obj.m_options =
                        [k \in DOMAIN input.u.parameters
                                \ {"mode", "timeout", "adapter", "port"}
                            |-> input.u.parameters[k]]

C7_Witness ==
    /\ mpc = "params"
    /\ LiveType
    /\ EffectiveChunk = 1456
    /\ lastexc.exc = "none"
    /\ obj.m_options["payloadsize"] = <<"1", "4", "5", "6">>

\* C8: the mode InitParameters derives is the 'mode' option when given
\* (client read as caller, server as listener), else listener for an empty
\* host and caller for a non-empty one; Init opens the medium by the open
\* path of exactly that mode and rejects every other mode as invalid
\* argument.
C8_ExpectedMode ==
    LET given == IF InPar("mode") THEN input.u.parameters["mode"]
                 ELSE "default"
    IN  CASE given = "default" ->
                IF input.u.host = "" THEN "listener" ELSE "caller"
          [] given = "client" -> "caller"
          [] given = "server" -> "listener"
          [] OTHER -> given

C8_PathOf(mode, pinned) ==
    CASE mode = "caller" ->
            <<"srt_socket", "ConfigurePre">>
            \o (IF pinned THEN <<"srt_bind">> ELSE <<>>)
            \o <<"srt_connect", "ConfigurePost">>
      [] mode = "listener" ->
            <<"srt_socket", "ConfigurePre", "srt_bind", "srt_listen">>
      [] mode = "rendezvous" ->
            <<"srt_socket", "srt_setsockopt(SRTO_RENDEZVOUS)",
              "ConfigurePre", "srt_bind", "srt_connect", "ConfigurePost">>
      [] OTHER -> <<>>

C9_Adapter ==
    /\ (mpc = "params" /\ ParamsOk) =>
         IF InPar("adapter")
         THEN obj.m_adapter = input.u.parameters["adapter"]
         ELSE IF C8_ExpectedMode = "listener"
         THEN obj.m_adapter = input.u.host
         ELSE IF C8_ExpectedMode = "caller"
         THEN obj.m_adapter = ""
         ELSE TRUE
    /\ (mpc = "created" /\ input.u.type = "SRT" /\ lastexc.exc = "none"
            /\ obj.m_mode = "listener") =>
         /\ obj.m_bindsock \in Handles
         /\ lib.bound[obj.m_bindsock].port = PortNumber
         /\ lib.bound[obj.m_bindsock].addr =
               IF InPar("adapter")
               THEN Resolve(input.u.parameters["adapter"])
               ELSE IF input.u.host = "" THEN <<0, 0, 0, 0>>
               ELSE Resolve(input.u.host)

C9_Witness ==
    /\ mpc = "created"
    /\ input.u.type = "SRT"
    /\ input.u.host = ""
    /\ ~InPar("adapter")
    /\ lastexc.exc = "none"
    /\ obj.m_mode = "listener"
    /\ lib.bound[obj.m_bindsock].addr = <<0, 0, 0, 0>>

\* C10 as stated: when the source had at least 10 chunks ready at a ready
\* event, the iteration reads exactly 10 chunks of the configured size and
\* dispatches them to the target in the order read, before the next poll
\* (in a run where both factories yielded a medium).
C10_Original ==
    (pc = "loop" /\ hist.plenty /\ src # NULL /\ hist.ctorfail = 0) =>
        /\ Len(hist.batchRead) = 10
        /\ hist.rdsize = chunk
        /\ hist.batchWritten = hist.batchRead

\* C10 amended: when the source had at least 10 chunks ready at a ready
\* event and the iteration runs to its end with the source still there, it
\* has read exactly 10 chunks, consecutive in arrival order, each with the
\* configured size; what is written to the target is in the order read; all
\* 10 are written when there is a target and it was open at every
\* dispatch, and none is written when there is no target.
C10_Batch ==
    (pc = "loop" /\ hist.plenty /\ src # NULL) =>
        /\ Len(hist.batchRead) = 10
        /\ hist.rdsize = chunk
        /\ \A i \in 1..9 : hist.batchRead[i + 1] = hist.batchRead[i] + 1
        /\ StrictlyIncreasing(hist.batchWritten)
        /\ Range(hist.batchWritten) \subseteq Range(hist.batchRead)
        /\ (tar # NULL /\ ~hist.skipped) =>
              hist.batchWritten = hist.batchRead
        /\ tar = NULL => hist.batchWritten = <<>>

C10_Witness ==
    /\ pc = "loop"
    /\ hist.plenty
    /\ src # NULL /\ tar # NULL
    /\ Len(hist.batchRead) = 10
    /\ hist.batchWritten = hist.batchRead
    /\ arrived - hist.nread = 1

\* ---- helpers of the claims about the flags
Flagged == int_state \/ timer_state

\* C11 as stated: once the interrupt or the alarm flag is set, a run that
\* ends without an exception in flight ends with exit code 0 (in a run where
\* both factories yielded a medium).
C11_Original ==
    (pc = "done" /\ Flagged /\ lastexc.exc = "none" /\ hist.ctorfail = 0) =>
        retcode = 0

\* C11 amended: the flags are examined only at the loop head. The alarm
\* flag once set stays set, and the stop condition once true stays true
\* outside the alarm handler; at the loop head a set flag ends the run with
\* exit code 0
\* and no flag starts the next iteration; with a flag set no iteration
\* starts; and every other way the run ends is the iteration's own: an
\* exception (255), a medium that cannot be created or registered (1), or
\* the abort of the iteration by an observed loss, a failed accept or an
\* unexpected socket (0).
C11_LoopHeadOnly ==
    [][ /\ timer_state => timer_state'
        /\ Flagged => (Flagged' \/ alarm_at' = "reset")
        /\ (pc = "loop" /\ ProgramStep) =>
              IF Flagged THEN pc' = "done" /\ retcode' = 0
              ELSE pc' = "create_src"
        /\ (Flagged /\ pc # "create_src") => pc' # "create_src"
        /\ (pc \notin {"loop", "done"} /\ pc' = "done") =>
              \/ retcode' = 255 /\ lastexc'.exc # "none"
              \/ retcode' = 1 /\ pc \in {"create_src", "create_tar"}
                              /\ lastexc'.exc = "none"
              \/ retcode' = 0 /\ pc = "handle" /\ doabort
      ]_vars

\* the alarm went off during an iteration that read and wrote chunks; the
\* iteration ran to its end and the run ended at the loop head
C11_Witness ==
    /\ pc = "done" /\ retcode = 0
    /\ timer_state /\ ~int_state
    /\ ~doabort
    /\ Len(hist.batchWritten) > 0

\* ---- helpers of the claims about the life of a medium
\* the instances that exist
Instances == {m \in {obj, obj2} : m.type = "SRT"}

\* C12 as stated: between the operations a transport-socket medium has at
\* most one of its listening handle and its active handle non-null; after
\* a successful accept the listening handle is null.
C12_OneHandle ==
    lastexc.exc = "none" =>
        \A m \in Instances :
            m.m_sock = SRT_INVALID_SOCK \/ m.m_bindsock = SRT_INVALID_SOCK

\* ---- helpers of the claims about the poll set and the handles
ClosedStates == {"CLOSED", "NONEXIST"}
MediumHandles(m) ==
    IF m.type = "SRT" THEN {m.m_sock, m.m_bindsock} \cap Handles ELSE {}
\* the open socket handles of the current source and target
OwnedOpen ==
    {h \in MediumHandles(src) \cup MediumHandles(tar) :
        lib.st[h] \notin ClosedStates}

\* C13 as stated: at every iteration boundary the poll set holds exactly
\* the open socket handles of the current source and target, and a handle
\* is out of the poll set when an operation that succeeds closes it.
C13_PollSet ==
    [][ /\ pc' = "loop" => pollset' = OwnedOpen'
        /\ \A h \in Handles :
              (/\ lib.st[h] \notin ClosedStates
               /\ lib'.st[h] = "CLOSED"
               /\ lastexc'.exc = "none") => h \notin pollset
      ]_vars

\* C14 as stated: when the construction of a transport-socket medium fails
\* after its socket was created, that socket is closed exactly once.
C14_ClosedOnce ==
    (/\ mpc = "created"
     /\ input.u.type = "SRT"
     /\ lastexc.exc # "none"
     /\ lib.next > FirstSock) =>
        /\ lib.st[FirstSock] = "CLOSED"
        /\ lib.closes[FirstSock] = 1

\* the operation made last on the instances
LastOp == IF mops = <<>> THEN "" ELSE mops[Len(mops)]

\* C15 as stated: Close, called on a medium some handle of which was closed
\* before (by an earlier Close or by the accept), raises nothing and closes
\* no handle a second time.
C15_CloseIdempotent ==
    LastOp \in {"Close", "obj2.Close"} =>
        /\ lastexc.exc = "none"
        /\ \A h \in Handles : lib.closes[h] <= 1

\* C16 as stated: at the iteration boundary every socket handle that is not
\* closed belongs to the current source or target: the handles of a medium
\* abandoned for reconnection were closed with it.
C16_NoLeak ==
    pc = "loop" =>
        \A h \in Handles :
            lib.st[h] \notin ClosedStates =>
                h \in MediumHandles(src) \cup MediumHandles(tar)

\* the settings StealFrom carries over
SameSettings(a, b) ==
    /\ a.m_output_direction = b.m_output_direction
    /\ a.m_blocking_mode = b.m_blocking_mode
    /\ a.m_timeout = b.m_timeout
    /\ a.m_tsbpdmode = b.m_tsbpdmode
    /\ a.m_options = b.m_options

\* C17: StealFrom(other) leaves the receiving instance with the handle
\* other held and with other's direction, blocking mode, timeout,
\* time-stamped-delivery flag and option map, and leaves other with no
\* active handle; after any sequence of operations no handle is held by
\* both instances.
C17_StealFrom ==
    [][ /\ mops' = Append(mops, "obj2.StealFrom(obj)") =>
              /\ obj2'.m_sock = obj.m_sock
              /\ obj'.m_sock = SRT_INVALID_SOCK
              /\ SameSettings(obj2', obj)
        /\ mops' = Append(mops, "obj.StealFrom(obj2)") =>
              /\ obj'.m_sock = obj2.m_sock
              /\ obj2'.m_sock = SRT_INVALID_SOCK
              /\ SameSettings(obj', obj2)
        /\ MediumHandles(obj') \cap MediumHandles(obj2') = {}
      ]_vars

\* the fresh instance took the accepted socket and the settings of a
\* listening target made with tsbpd=no and timeout=5
C17_Witness ==
    /\ LastOp = "obj2.StealFrom(obj)"
    /\ obj2.m_sock \in Handles
    /\ lib.st[obj2.m_sock] = "CONNECTED"
    /\ obj.m_sock = SRT_INVALID_SOCK
    /\ obj2.m_output_direction
    /\ obj2.m_timeout = 5
    /\ ~obj2.m_tsbpdmode

\* the sockets obtained by srt_accept
Accepted == {h \in Handles : lib.parent[h] # SRT_INVALID_SOCK}
\* the sockets obtained by srt_socket
Created == {h \in Handles : lib.st[h] # "NONEXIST"} \ Accepted

\* C18: the PRE phase is run exactly once on every socket the program
\* creates, while the socket is fresh (before bind, listen and connect), and
\* never on a socket obtained by accept; the PRE values of an accepted
\* socket are those given to its listening socket, which are the values of
\* the medium.
C18_PreOnce ==
    /\ \A h \in Created :
          /\ Len(lib.pre[h]) = 1
          /\ lib.pre[h][1].at = "INIT"
    /\ \A h \in Accepted :
          /\ lib.pre[h] = <<>>
          /\ lib.parent[h] \in Created
    /\ (LastOp = "AcceptNewClient" /\ lastexc.exc = "none") =>
          /\ obj.m_sock \in Accepted
          /\ lib.parent[obj.m_sock] = obj.m_bindsock
          /\ lib.pre[obj.m_bindsock][1].values = PreValues(obj)

\* a client was accepted by a listener made with tsbpd=no: the accepted
\* socket was given no PRE phase and its listening socket one
C18_Witness ==
    /\ LastOp = "AcceptNewClient"
    /\ lastexc.exc = "none"
    /\ obj.m_sock \in Accepted
    /\ lib.st[obj.m_sock] = "CONNECTED"
    /\ lib.pre[obj.m_sock] = <<>>
    /\ Len(lib.pre[obj.m_bindsock]) = 1
    /\ ~lib.pre[obj.m_bindsock][1].values.tsbpdmode

\* ---- helpers of the claim about UDP
\* UdpCommon::Setup got past the creation of its socket
UdpSetupRan ==
    /\ mpc = "created"
    /\ input.u.type = "UDP"
    /\ PortNumber > 1024
    /\ lastexc.what \notin {"UdpCommon::Setup: socket",
                             "UdpCommon::Setup: ioctl FIONBIO"}
GroupAddress == Resolve(input.u.host)[1] \in 224..239
JoinCalled == "setsockopt(IP_ADD_MEMBERSHIP)" \in Range(calls)

\* C19: the set-up of a UDP medium asks for the membership of a multicast
\* group exactly when the first octet of the resolved address is in
\* 224..239, and then for the group of that address; a 'multicast' option
\* with any other address makes the set-up fail.
C19_Multicast ==
    UdpSetupRan =>
        /\ JoinCalled <=> GroupAddress
        /\ (InPar("multicast") /\ ~GroupAddress) =>
              /\ lastexc = [exc |-> "runtime_error",
                            what |-> "requested multicast"]
              /\ obj = NULL
        /\ lastexc.exc = "none" =>
              /\ obj.type = "UDP"
              /\ IF GroupAddress
                 THEN \E g \in lib.member :
                        /\ lib.member = {g}
                        /\ g.fd = obj.m_sock
                        /\ g.group = Resolve(input.u.host)
                 ELSE lib.member = {}

C19_Witness ==
    /\ mpc = "created"
    /\ input.u.type = "UDP"
    /\ input.u.host = "239.1.1.1"
    /\ ~InPar("multicast")
    /\ lastexc.exc = "none"
    /\ \E g \in lib.member : g.group = <<239, 1, 1, 1>>

\* ---- helpers of the claim about the relay between files
FileToFile == params[1].type = "FILE" /\ params[2].type = "FILE"

\* C20: with a file as the source and a file as the target, the loop has a
\* source medium once it has asked for one, relays what the source
\* delivers, and the run ends cleanly (exit code 0) with no second
\* creation of a medium.
C20_FileRelay ==
    (FileToFile /\ hist.creates[1] > 0) =>
        /\ src # NULL
        /\ hist.creates[1] = 1
        /\ pc = "done" => retcode = 0

\* ---- helpers of the claim about errors raised in the loop
\* TransmissionError (SrtCommon::Error) and ReadEOF (SrtSource::Read)
TransmissionErrors == {"TransmissionError", "ReadEOF"}

\* C21: a transmission error or end-of-stream condition raised in the loop
\* by the construction of a medium, by the accept, by Read or by Write ends
\* the run in the step that raises it with exit code 255, and nothing is
\* done after it: no read, no write, no further iteration.
C21_ErrorEndsRun ==
    [][ /\ (lastexc'.exc \in TransmissionErrors /\ lastexc' # lastexc) =>
              /\ pc' = "done"
              /\ retcode' = 255
              /\ hist'.nread = hist.nread
              /\ hist'.batchWritten = hist.batchWritten
        /\ lastexc.exc \in TransmissionErrors =>
              /\ pc = "done" /\ retcode = 255
              /\ UNCHANGED vars ]_vars

\* the end of the stream met by Read after chunks were read
C21_Witness ==
    /\ pc = "done" /\ retcode = 255
    /\ lastexc.exc = "ReadEOF"
    /\ hist.nread > 0
    /\ srt_getsockstate(src.m_sock) = "BROKEN"

\* C22: in non-blocking mode a Read of an SRT source that finds nothing to
\* read returns false with an empty buffer and raises nothing; every other
\* failure of the receive raises a transmission error; a Read that returns
\* true delivers a buffer that is not empty and not larger than the chunk
\* size asked for.
C22_Read ==
    (LastOp = "Read" /\ obj.type = "SRT") =>
        /\ (~obj.m_blocking_mode /\ mres.stat = SRT_ERROR
                /\ mres.err = "SRT_EASYNCRCV") =>
              /\ ~mres.res
              /\ mres.size = 0
              /\ lastexc = NoException
        /\ (mres.stat = SRT_ERROR /\ mres.err # "SRT_EASYNCRCV") =>
              lastexc = [exc |-> "TransmissionError", what |-> "recvmsg"]
        /\ mres.res =>
              /\ mres.size \in 1..chunk
              /\ mres.stat > 0
              /\ lastexc = NoException

C22_Witness ==
    /\ LastOp = "Read"
    /\ srt_getsockstate(obj.m_sock) = "CONNECTED"
    /\ mres.err = "SRT_EASYNCRCV"
    /\ ~mres.res /\ mres.size = 0
    /\ lastexc = NoException

\* ---- helpers of the claims about the accept made by the loop
\* the for loop is at a ready socket of the source or of the target that is
\* listening
ObservingListener ==
    /\ pc = "handle"
    /\ idx \in 1..Len(srtrfds)
    /\ src # NULL
    /\ \/ GetSRTSocket(src) = srtrfds[idx]
       \/ tar # NULL /\ GetSRTSocket(tar) = srtrfds[idx]
    /\ srt_getsockstate(srtrfds[idx]) = "LISTENING"
\* the step is the pass of the for loop in which the accept succeeded
AcceptSucceeds ==
    /\ ObservingListener
    /\ idx' = idx + 1
    /\ lastexc'.exc = "none"

\* C23 as stated: when the loop accepts a client on a listening ready
\* socket of the source or target, the step leaves the listening handle out
\* of the poll set and the accepted handle in it, or, when the accepted
\* handle cannot be registered, marks the iteration as aborted.
C23_AcceptRegisters ==
    [][ AcceptSucceeds =>
          /\ srtrfds[idx] \notin pollset'
          /\ \/ doabort'
             \/ IF ObservedIsSource
                THEN GetSRTSocket(src') \in pollset'
                ELSE GetSRTSocket(tar') \in pollset' ]_vars

\* ---- helpers of the claims about the POST phase
\* the timeout the location asks for (0: none)
TimeoutAsked ==
    IF InPar("timeout") THEN stoi(input.u.parameters["timeout"], 0).val
    ELSE 0
\* the POST phases run so far, on any socket
PostPhases == UNION {Range(lib.post[h]) : h \in Handles}

\* C27 as stated: every POST phase sets the synchronous flag of the
\* medium's direction, with the timeout of that direction when one is
\* configured, and applies every configured option tagged POST, also when
\* a timeout is configured.
C27_PostOptions ==
    (mpc \in {"created", "used"} /\ input.u.type = "SRT") =>
        \A e \in PostPhases :
            /\ e.flag = IF input.isOutput THEN "SRTO_SNDSYN"
                        ELSE "SRTO_RCVSYN"
            /\ e.timeout = TimeoutAsked
            /\ e.options = PostOptions(input.u.parameters)

\* ---- helpers of the claim about AcceptNewClient
\* the sockets accepted from listening socket l
AcceptedFrom(l) == {h \in Handles : lib.parent[h] = l}

\* C24 as stated: AcceptNewClient takes one connection from the listening
\* socket, leaves the listening socket closed whether the accept succeeded
\* or failed, and runs on the accepted socket one POST phase that applies
\* the POST options of the medium; no listening socket ever yields a second
\* accepted socket.
C24_AcceptOnce ==
    /\ \A l \in Handles : Cardinality(AcceptedFrom(l)) <= 1
    /\ LastOp = "AcceptNewClient" =>
          /\ obj.m_bindsock \in Handles => lib.st[obj.m_bindsock] = "CLOSED"
          /\ lastexc.exc = "none" =>
                /\ obj.m_sock \in AcceptedFrom(obj.m_bindsock)
                /\ Len(lib.post[obj.m_sock]) = 1
                /\ lib.post[obj.m_sock][1].options =
                       PostOptions(obj.m_options)

\* ---- helpers of the claims about the order of the open steps
OpenSteps ==
    {"srt_socket", "ConfigurePre", "srt_bind", "srt_listen", "srt_connect",
     "ConfigurePost"}
IsOpenStep(c) == c \in OpenSteps
\* the steps of the open path among the library calls of the construction
StepsMade == SelectSeq(calls, IsOpenStep)
\* the step whose failure Error() reports under the name what
FailedStep(what) == IF what = "UDT::connect" THEN "srt_connect" ELSE what
\* the medium was made as a caller
MadeAsCaller ==
    /\ mpc = "created"
    /\ input.u.type = "SRT"
    /\ ~InPar("mode") /\ input.u.host # ""
PinnedPort ==
    IF InPar("port") THEN stoi(input.u.parameters["port"], 0).val ELSE 0
CallerSteps ==
    IF PinnedPort # 0
    THEN <<"srt_socket", "ConfigurePre", "srt_bind", "srt_connect",
           "ConfigurePost">>
    ELSE <<"srt_socket", "ConfigurePre", "srt_connect", "ConfigurePost">>

\* C25: the construction of a caller makes the steps create socket,
\* ConfigurePre, bind to the pinned outgoing port (only when one is
\* configured), connect, ConfigurePost in this order, each once; when a step
\* fails it is the last step made, and when none fails all are made.
C25_CallerOrder ==
    MadeAsCaller =>
        /\ IsPrefix(StepsMade, CallerSteps)
        /\ lastexc.exc = "none" =>
              /\ StepsMade = CallerSteps
              /\ PinnedPort # 0 =>
                    lib.bound[obj.m_sock] = CreateAddrInet("", PinnedPort)
        /\ lastexc.exc = "TransmissionError" =>
              /\ StepsMade # <<>>
              /\ StepsMade[Len(StepsMade)] = FailedStep(lastexc.what)
              /\ obj = NULL

C25_Witness ==
    /\ MadeAsCaller
    /\ PinnedPort # 0
    /\ lastexc.exc = "none"
    /\ calls = <<"srt_socket", "ConfigurePre", "srt_bind", "srt_connect",
                 "ConfigurePost">>
    /\ srt_getsockstate(obj.m_sock) = "CONNECTING"

\* ---- helpers of the claim about the opening of a listener
ListenerSteps == <<"srt_socket", "ConfigurePre", "srt_bind", "srt_listen">>
\* the state right after m was made as a listener at the location u
OpenedAsListener(m, u) ==
    /\ m.m_mode = "listener"
    /\ calls = ListenerSteps
    /\ m.m_sock = SRT_INVALID_SOCK
    /\ m.m_bindsock \in Handles
    /\ lib.st[m.m_bindsock] = "LISTENING"
    /\ lib.bound[m.m_bindsock] = CreateAddrInet(m.m_adapter, PortOf(u))
    /\ AcceptedFrom(m.m_bindsock) = {}
\* the step calls srt_accept: a socket gets its parent, or the accept fails
AcceptMade ==
    \/ \E h \in Handles : lib'.parent[h] # lib.parent[h]
    \/ lastexc'.what = "srt_accept" /\ lastexc' # lastexc

\* C26: the construction of a listener makes srt_socket, ConfigurePre,
\* srt_bind(adapter, port), srt_listen in this order and leaves the medium
\* with a listening handle in state LISTENING and no active handle; no
\* accept is made by the construction: srt_accept is called only by the
\* loop, at a ready socket of the source or target it finds LISTENING.
C26_ListenerOpen ==
    [][ /\ (pc = "create_src" /\ src = NULL /\ src' # NULL
                /\ params[1].host = "") =>
              OpenedAsListener(src, params[1])'
        /\ (pc = "create_tar" /\ tar = NULL /\ tar' # NULL
                /\ params[2].host = "") =>
              OpenedAsListener(tar, params[2])'
        /\ AcceptMade => ObservingListener ]_vars

\* the loop has accepted a client on the listener it made for the source
C26_Witness ==
    /\ pc = "handle"
    /\ src # NULL
    /\ src.m_mode = "listener"
    /\ src.m_sock \in AcceptedFrom(src.m_bindsock)
    /\ lastexc.exc = "none"

\* ---- helpers of the claims about the reporting of failures
\* the names under which SrtCommon::Error is called
ReportedNames ==
    {"srt_socket", "ConfigurePre", "srt_bind", "srt_listen", "UDT::connect",
     "srt_connect", "ConfigurePost", "srt_accept", "recvmsg", "srt_sendmsg"}
\* a medium was made and operated on
Operating == mpc \in {"created", "used"} /\ input.u.type = "SRT"
\* some handle was closed again after it was closed
ClosedAgain == \E h \in Handles : lib.closes[h] >= 2

\* C28 as stated, at a Read: a failing srt_recvmsg always ends in a
\* transmission error, and when Read has returned or raised the library
\* holds no error state.
C28_Original ==
    (Operating /\ LastOp = "Read") =>
        /\ mres.stat = SRT_ERROR => lastexc.exc = "TransmissionError"
        /\ ~lib.lasterr

\* C28: a failure that a medium reports is raised as a transmission error
\* under the name of the operation with the library error state cleared:
\* after it the library holds an error only if the unwinding closed a
\* handle again. A Read that finds nothing to read is not reported: it
\* returns false, raises nothing and leaves the error state of the library
\* set.
C28_Reported ==
    Operating =>
        /\ lastexc.exc = "TransmissionError" =>
              /\ lastexc.what \in ReportedNames
              /\ lib.lasterr => ClosedAgain
        /\ (LastOp = "Read" /\ mres.err = "SRT_EASYNCRCV") =>
              /\ lastexc = NoException
              /\ ~mres.res
              /\ lib.lasterr

\* a receive that failed on a lost connection was reported and the error
\* state is clear
C28_Witness ==
    /\ Operating
    /\ LastOp = "Read"
    /\ mres.err = "SRT_ECONNLOST"
    /\ lastexc = [exc |-> "TransmissionError", what |-> "recvmsg"]
    /\ ~lib.lasterr

\* ---- helpers of the claim about the connected flags
\* the for loop is at a ready socket of this side (1 source, 2 target)
ObservingSide(side) ==
    /\ pc = "handle"
    /\ idx \in 1..Len(srtrfds)
    /\ src # NULL
    /\ side = 1 => GetSRTSocket(src) = srtrfds[idx]
    /\ side = 2 => /\ GetSRTSocket(src) # srtrfds[idx]
                   /\ tar # NULL
                   /\ GetSRTSocket(tar) = srtrfds[idx]
ConnectedFlag(side) == IF side = 1 THEN srcConnected ELSE tarConnected
SaysConnected(side) ==
    hist.said = (IF side = 1 THEN "SRT source connected"
                 ELSE "SRT target connected")
SaysDisconnected(side) ==
    hist.said = (IF side = 1 THEN "SRT source disconnected"
                 ELSE "SRT target disconnected")

\* C29: for each side, the pass over its ready socket sets the connected
\* flag when the socket is Connected and clears it when the socket is
\* Broken, Closed or NonExistent, and writes the 'connected' message exactly
\* when the flag goes up and the 'disconnected' message exactly when it
\* goes down, so the two messages of a side alternate.
C29_ConnectedFlags ==
    [][ \A side \in {1, 2} :
          (ObservingSide(side) /\ ProgramStep) =>
              /\ srt_getsockstate(srtrfds[idx]) = "CONNECTED"
                    => ConnectedFlag(side)'
              /\ srt_getsockstate(srtrfds[idx]) \in LostStates
                    => ~ConnectedFlag(side)'
              /\ SaysConnected(side)'
                    <=> (~ConnectedFlag(side) /\ ConnectedFlag(side)')
              /\ SaysDisconnected(side)'
                    <=> (ConnectedFlag(side) /\ ~ConnectedFlag(side)') ]_vars

\* ---- helpers of the claim about an unexpected ready socket
\* a pass of the for loop, or the test that follows the last pass
PassStep == pc = "handle" /\ ProgramStep

\* C30 as stated, for a run whose target is an SRT medium: when the poll
\* wait has reported a ready socket that is neither the source's nor the
\* target's handle, the iteration makes no accept, reads no chunk and writes
\* none, and the loop aborts: the passes over the ready sockets are followed
\* by the end of the run with exit code 0.
C30_UnexpectedAborts ==
    [][ (hist.unexpected /\ PassStep /\ params[2].type = "SRT") =>
          /\ ~AcceptMade
          /\ hist'.nread = hist.nread
          /\ hist'.batchWritten = hist.batchWritten
          /\ pc' \in {"handle", "done"}
          /\ pc' = "done" => (doabort /\ retcode' = 0) ]_vars

\* ---- helpers of the claims about the dispatch of the chunks
\* a step of the dispatch loop
DispatchStep == pc = "write" /\ ProgramStep
\* the step hands a chunk to the Write of the target, which returns or raises
WriteMade ==
    \/ hist'.batchWritten # hist.batchWritten
    \/ lastexc' # lastexc
\* the chunks of this iteration that have left the queue
Dispatched ==
    SubSeq(hist.batchRead, 1, Len(hist.batchRead) - Len(dataqueue))

\* C31: every chunk read in an iteration is handed to the Write of the
\* target at most once and in arrival order, and only when there is a target
\* and it reports open; with no target or a target that is not open the
\* chunk leaves the queue with no error, and the loop goes on.
C31_Dispatch ==
    [][ /\ (pc \in {"read", "write"}) =>
              /\ StrictlyIncreasing(hist.batchRead)
              /\ StrictlyIncreasing(hist.batchWritten)
              /\ Range(hist.batchWritten) \subseteq Range(hist.batchRead)
        /\ (pc = "write" /\ Len(dataqueue) <= Len(hist.batchRead)) =>
              /\ IsPrefix(Dispatched, hist.batchRead)
              /\ Range(hist.batchWritten) \subseteq Range(Dispatched)
        /\ (DispatchStep /\ WriteMade) =>
              /\ tar # NULL
              /\ IsOpen(tar)
              /\ dataqueue # <<>>
              /\ hist'.batchWritten # hist.batchWritten =>
                    /\ hist'.batchWritten =
                          Append(hist.batchWritten, Head(dataqueue))
                    /\ dataqueue' = Tail(dataqueue)
        /\ (DispatchStep /\ (tar = NULL \/ ~IsOpen(tar))) =>
              /\ ~WriteMade
              /\ lastexc' = lastexc
              /\ retcode' = retcode
              /\ pc' \in {"write", "loop"}
              /\ tar # NULL /\ dataqueue # <<>> =>
                    dataqueue' = Tail(dataqueue) ]_vars

\* of one batch a chunk went to the target and a later one was dropped
\* because the target was no longer open
C31_Witness ==
    /\ pc = "loop"
    /\ hist.skipped
    /\ Len(hist.batchWritten) >= 1
    /\ Len(hist.batchRead) > Len(hist.batchWritten)
    /\ lastexc = NoException

\* ---- helpers of the claim about a failing poll wait
\* the step is a poll wait that returns a failure
WaitFails == pc = "wait" /\ ProgramStep /\ hist'.waitret < 0

\* C32: a poll wait that returns a failure does not end the run: the step
\* leads straight back to the test of the interrupt and alarm flags with no
\* ready socket inspected, no medium, socket or poll set touched and no
\* chunk read or written; from there the next step of the loop is that
\* test, which ends the run with exit code 0 when a flag is set.
C32_WaitFailure ==
    [][ /\ WaitFails =>
              /\ pc' = "loop"
              /\ retcode' = retcode
              /\ hist'.nread = hist.nread
              /\ hist'.batchRead = <<>> /\ hist'.batchWritten = <<>>
              /\ hist'.said = hist.said
              /\ hist'.creates = hist.creates
              /\ UNCHANGED <<src, tar, srcConnected, tarConnected, pollset,
                             dataqueue, doabort, lib, calls, lastexc>>
        /\ (pc = "loop" /\ ProgramStep) =>
              IF Flagged THEN pc' = "done" /\ retcode' = 0
              ELSE pc' = "create_src" ]_vars

\* a poll wait failed with a socket in the poll set and the loop is back at
\* the test of the flags, one of which was set meanwhile
C32_Witness ==
    /\ pc = "loop"
    /\ hist.waitret < 0
    /\ pollset # {}
    /\ src # NULL /\ tar # NULL
    /\ int_state
    /\ hist.nread > 0

\* ---- helpers of the claims about SrtModel
\* the step is a call of Establish on a model in caller mode
CallerEstablishes ==
    /\ mops' = Append(mops, "Establish")
    /\ obj.is_caller
\* the place of a call among the library calls of the last operation (0
\* when it was not made)
IndexOf(q, c) ==
    IF \E i \in 1..Len(q) : q[i] = c
    THEN CHOOSE i \in 1..Len(q) : q[i] = c /\ \A j \in 1..(i - 1) : q[j] # c
    ELSE 0
\* the port the 'port' option of the location pins (0 when there is none)
OptionPort ==
    IF InPar("port") THEN stoi(input.u.parameters["port"], 0).val ELSE 0

\* C33: the outgoing port of a caller-mode SrtModel is that of the 'port'
\* option when one other than 0 is given; otherwise it is unset until an
\* Establish call returns, which takes it from the local address of the
\* connected socket; once it is set no Establish call changes it, and every
\* Establish call that gets as far as connecting has bound its new socket
\* to that port before srt_connect. While it is unset no bind is made.
C33_OutgoingPort ==
    [][ /\ (mpc = "new" /\ mpc' = "created" /\ lastexc'.exc = "none") =>
              obj'.m_outgoing_port = OptionPort
        /\ (CallerEstablishes /\ obj.m_outgoing_port # 0) =>
              /\ obj'.m_outgoing_port = obj.m_outgoing_port
              /\ IndexOf(calls', "srt_connect") # 0 =>
                    /\ IndexOf(calls', "srt_bind") \in
                          1..(IndexOf(calls', "srt_connect") - 1)
                    /\ obj'.m_sock = lib.next
                    /\ lib'.bound[obj'.m_sock].port = obj.m_outgoing_port
                    /\ IndexOf(calls', "srt_getsockname") = 0
        /\ (CallerEstablishes /\ obj.m_outgoing_port = 0) =>
              /\ IndexOf(calls', "srt_bind") = 0
              /\ IF lastexc'.exc = "none"
                 THEN /\ obj'.m_sock = lib.next
                      /\ obj'.m_outgoing_port = EphemeralPort(obj'.m_sock)
                      /\ IndexOf(calls', "srt_getsockname") >
                            IndexOf(calls', "srt_connect")
                 ELSE obj'.m_outgoing_port = 0 ]_vars

\* a caller without a 'port' option has connected twice: the second socket
\* is bound to the port the system gave the first
C33_Witness ==
    /\ obj # NULL /\ obj.is_caller
    /\ ~InPar("port")
    /\ LastOp = "Establish"
    /\ lastexc = NoException
    /\ obj.m_sock = FirstSock + 1
    /\ obj.m_outgoing_port = EphemeralPort(FirstSock)
    /\ lib.bound[obj.m_sock].port = EphemeralPort(FirstSock)
    /\ lib.bound[FirstSock].port = 0
    /\ IndexOf(calls, "srt_bind") \in 1..(IndexOf(calls, "srt_connect") - 1)

\* ---- helpers of the claim about absent media
\* the step is a pass of the for loop over a ready socket
ReadyPass == pc = "handle" /\ idx \in 1..Len(srtrfds) /\ ProgramStep
\* the step is the part of the iteration that makes and registers a target
TargetSetup == pc = "create_tar" /\ tar = NULL /\ ProgramStep

\* C34 as stated: no pass over a ready socket and no registration goes
\* through a medium that is absent: a pass starts with the source there,
\* and with the target there when the socket is not the source's; and when
\* the factory yields no target the registration does not go on to the
\* type of the target.
C34_NoAbsentMedium ==
    [][ /\ ReadyPass =>
              /\ src # NULL
              /\ GetSRTSocket(src) # srtrfds[idx] => tar # NULL
        /\ (TargetSetup /\ src # NULL /\ lastexc'.exc = "none") =>
              (tar' = NULL => (pc' = "done" /\ retcode' = SetupExit)) ]_vars

\* ---- helpers of the claim about the stop condition
\* the step is the return of the alarm handler
AlarmReturns == alarm_at = "reset" /\ alarm_at' = "idle"

\* C35 as stated: the stop condition of the loop, interrupt flag or alarm
\* flag set, once true stays true under every interleaving of the two
\* handlers.
C35_Original == [][Flagged => Flagged']_vars

\* C35: the alarm flag once set stays set, and the alarm handler returns
\* with it set; the stop condition once true stays true except in one
\* place: between the two writes of the alarm handler, after the interrupt
\* flag is reset and before the alarm flag is set, both flags can be clear
\* although a stop was requested. Outside the alarm handler a stop
\* condition that holds is never revoked.
C35_StopCondition ==
    [][ /\ timer_state => timer_state'
        /\ AlarmReturns => timer_state'
        /\ Flagged => (Flagged' \/ (alarm_at = "idle" /\ alarm_at' = "reset"))
        /\ (alarm_at' = "idle" /\ Flagged) => Flagged'
        /\ (alarm_at = "idle" /\ alarm_at' = "reset") => ~int_state' ]_vars

\* the interrupt handler ran between the two writes of the alarm handler,
\* while the loop was waiting on the poll set
C35_Witness ==
    /\ alarm_at = "reset"
    /\ int_state /\ ~timer_state
    /\ pc = "wait"
    /\ src # NULL /\ tar # NULL

\* ---- helpers of the claim about the start of the reads
\* the step calls Read on the source
ReadMade == pc = "read" /\ ProgramStep /\ Len(dataqueue) < BatchSize
\* the poll wait of the iteration reported a socket of the source: its
\* active or its listening handle, or the system socket of a UDP source
SourceReported ==
    \/ src.type = "SRT" /\ \E i \in 1..Len(srtrfds) :
                               srtrfds[i] \in {src.m_sock, src.m_bindsock}
    \/ src.type = "UDP" /\ sysrfdslen > 0

\* C36 as stated: Read is called on the source only in an iteration whose
\* poll wait reported a socket of the source as ready.
C36_ReadsWhenReady == [][ReadMade => SourceReported]_vars

\* ---- helpers of the claim about the chunk queue
\* the chunks of the sequence q
ChunksOf(q) == {q[i] : i \in 1..Len(q)}
\* the loop runs and the program is outside the block that declares the
\* queue
OutsideBatch == Running /\ pc \notin {"read", "write"}

\* C37: the chunk queue never holds more than 10 chunks, it is empty
\* whenever the running program is outside the read and dispatch steps of
\* an iteration (in particular when the poll wait starts), and every chunk
\* queued or written was read after the last poll wait.
C37_QueueLocal ==
    /\ Len(dataqueue) <= BatchSize
    /\ OutsideBatch => dataqueue = <<>>
    /\ ChunksOf(dataqueue) \subseteq ChunksOf(hist.batchRead)
    /\ ChunksOf(hist.batchWritten) \subseteq ChunksOf(hist.batchRead)
\* C37 witness: the second iteration that moved data starts its poll wait
\* after a first one that read a full batch and lost the target with chunks
\* still queued
C37_Witness ==
    /\ pc = "wait"
    /\ dataqueue = <<>>
    /\ hist.nread >= BatchSize
    /\ Len(hist.batchWritten) < Len(hist.batchRead)

\* ---- helpers of the claim about the listening handle of an accept
\* the step is a call of Establish on a model in listener mode that gets
\* as far as srt_accept
ListenerAccepts ==
    /\ mops' = Append(mops, "Establish")
    /\ ~obj.is_caller
    /\ IndexOf(calls', "srt_accept") # 0
\* the handle the accept is issued on is open and listening at the call:
\* the call creates it (and srt_listen succeeded, the accept being reached),
\* or it was listening before the call
ListenerOpen ==
    \/ Listener(obj) = SRT_INVALID_SOCK
    \/ srt_getsockstate(Listener(obj)) = "LISTENING"

\* C38 as stated: every accept an Establish call of a listener-mode SrtModel
\* issues is issued on a listening handle that is open at that moment.
C38_AcceptOnOpenListener == [][ListenerAccepts => ListenerOpen]_vars

====
